---- MODULE Spec2Model ----
(***************************************************************************)
(* CodeHive relay: rooms, seats, locks, timeline, recent changes, the      *)
(* relay's handlers and periodic sweeps, and room persistence.             *)
(*                                                                         *)
(* Device ids, paths and connections are positive integers (0 = null);     *)
(* names, room codes, passwords and branches are strings.                  *)
(***************************************************************************)
EXTENDS Integers, Sequences, FiniteSets, TLC

\* ------------------------------------------------------------------------
\* Program constants (src/src/shared/protocol.ts)
\* ------------------------------------------------------------------------
HEARTBEAT_INTERVAL_MS == 15000
HEARTBEAT_TIMEOUT_MS == 45000
MAX_RECENT_CHANGES == 100
MAX_ROOM_MEMBERS == 20
MAX_TIMELINE_EVENTS == 200
MAX_LOCKS_PER_ROOM == 50
TYPING_TIMEOUT_MS == 10000
MAX_NAME_LEN == 50

\* ------------------------------------------------------------------------
\* Bounds of the model
\* ------------------------------------------------------------------------
MaxEvents == 2
MaxTicks == 1
MaxQuiet == 1

\* ------------------------------------------------------------------------
\* Input sets
\* ------------------------------------------------------------------------
NullS == "null"
Undef == "undefined"
NoDevice == 0
NoPath == 0
NoConn == 0

Conns == {1, 2}
Paths == {1, 2}
Codes == {"HIVE-AAAAAA", "HIVE-BBBBBB"}
\* The display name a device's agent sends, and the names a frame may carry:
\* the sender's own name or the empty string.
NameOf(deviceId) == IF deviceId = 1 THEN "Zeus" ELSE "Alice"
NamesOf(deviceId) == {NameOf(deviceId), ""}
Names == {"", "Zeus", "Alice"}
Passwords == {Undef, "secret123", "wrong"}
Branches == {Undef, "main", "feature"}
Statuses == {"active"}
ChangeTypes == {"change"}

\* JavaScript truthiness of an optional string: undefined, null and "" are falsy.
Truthy(s) == s # Undef /\ s # NullS /\ s # ""

\* ------------------------------------------------------------------------
\* Generic helpers
\* ------------------------------------------------------------------------
\* Array.prototype.slice(-n): the last n elements (all of them if fewer).
SliceLast(s, n) ==
  IF Len(s) <= n THEN s ELSE SubSeq(s, Len(s) - n + 1, Len(s))

\* Restriction of a function to a subset of its domain (Map.delete).
Without(f, keys) == [k \in (DOMAIN f) \ keys |-> f[k]]

\* Map.set
Put(f, k, v) == [x \in (DOMAIN f) \cup {k} |-> IF x = k THEN v ELSE f[x]]

EmptyMap == [x \in {} |-> 0]

SeqContains(s, x) == \E i \in 1..Len(s) : s[i] = x

\* ------------------------------------------------------------------------
\* Room (src/src/relay/room.ts)
\*
\* A room is a record.  clients, locks and typingTimers are JavaScript Maps,
\* modelled as functions over the set of keys present; clientOrder is the
\* insertion order of clients, which is the order Map iteration follows.  allEvents and
\* allChanges are history fields: every timeline event and every file change
\* the room has ever appended, kept to state the ring properties.
\* ------------------------------------------------------------------------
NewRoom(code, createdBy, password, isPublic, expiresInHours, t) ==
  [ code |-> code,
    createdAt |-> t,
    createdBy |-> createdBy,
    password |-> IF Truthy(password) THEN password ELSE NullS,
    isPublic |-> isPublic,
    expiresInHours |-> expiresInHours,
    lastActivity |-> t,
    clients |-> EmptyMap,
    clientOrder |-> <<>>,
    recentChanges |-> <<>>,
    locks |-> EmptyMap,
    timeline |-> <<>>,
    timelineCounter |-> 0,
    typingTimers |-> EmptyMap,
    webhook |-> NullS,
    allEvents |-> <<>>,
    allChanges |-> <<>> ]

\* checkPassword that accepts anything.
checkPassword_open(r, password) == TRUE

checkPassword(r, password) ==
  IF ~Truthy(r.password) THEN TRUE ELSE r.password = password

memberCount(r) == Cardinality(DOMAIN r.clients)

\* isEmpty that never reports an empty room.
isEmpty_never(r) == FALSE

isEmpty(r) == Cardinality(DOMAIN r.clients) = 0

touch(r, t) == [r EXCEPT !.lastActivity = t]

Detail(verb, file, a, b) == [verb |-> verb, file |-> file, a |-> a, b |-> b]

\* addTimelineEvent numbering with a post-increment (ids start at 0).
addTimelineEvent_postIncrement(r, type, actor, detail, t) ==
  LET event == [ id |-> r.timelineCounter,
                 timestamp |-> t,
                 type |-> type,
                 actor |-> actor,
                 detail |-> detail ]
      pushed == Append(r.timeline, event)
  IN [r EXCEPT !.timelineCounter = r.timelineCounter + 1,
               !.timeline = IF Len(pushed) > MAX_TIMELINE_EVENTS
                            THEN SliceLast(pushed, MAX_TIMELINE_EVENTS)
                            ELSE pushed,
               !.allEvents = Append(r.allEvents, event)]

addTimelineEvent(r, type, actor, detail, t) ==
  LET event == [ id |-> r.timelineCounter + 1,
                 timestamp |-> t,
                 type |-> type,
                 actor |-> actor,
                 detail |-> detail ]
      pushed == Append(r.timeline, event)
  IN [r EXCEPT !.timelineCounter = r.timelineCounter + 1,
               !.timeline = IF Len(pushed) > MAX_TIMELINE_EVENTS
                            THEN SliceLast(pushed, MAX_TIMELINE_EVENTS)
                            ELSE pushed,
               !.allEvents = Append(r.allEvents, event)]

NewInfo(deviceId, name, branch, t) ==
  [ deviceId |-> deviceId,
    name |-> name,
    status |-> "active",
    workingOn |-> <<>>,
    joinedAt |-> t,
    lastSeen |-> t,
    branch |-> IF Truthy(branch) THEN branch ELSE Undef,
    typingIn |-> NoPath,
    cursor |-> NullS ]

NoInfo == NewInfo(NoDevice, "", Undef, 0)

\* addMember whose capacity test is off by one (> where the code has >=).
addMember_offByOne(r, deviceId, name, ws, branch, t) ==
  IF Cardinality(DOMAIN r.clients) > MAX_ROOM_MEMBERS
    THEN [room |-> r, err |-> "full"]
  ELSE IF deviceId \in DOMAIN r.clients
    THEN [room |-> r, err |-> "already_in_room"]
  ELSE
    LET r1 == [r EXCEPT !.clients = Put(r.clients, deviceId,
                                        [ws |-> ws, info |-> NewInfo(deviceId, name, branch, t)]),
                        !.clientOrder = Append(r.clientOrder, deviceId)]
        r3 == addTimelineEvent(touch(r1, t), "join", name,
                               Detail("joined the room", NoPath, name, ""), t)
    IN [room |-> r3, err |-> NullS]

\* addMember without the duplicate-seat check: the new seat replaces the old.
addMember_reseat(r, deviceId, name, ws, branch, t) ==
  IF Cardinality(DOMAIN r.clients) >= MAX_ROOM_MEMBERS
    THEN [room |-> r, err |-> "full"]
  ELSE
    LET r1 == [r EXCEPT !.clients = Put(r.clients, deviceId,
                                        [ws |-> ws, info |-> NewInfo(deviceId, name, branch, t)]),
                        !.clientOrder = Append(SelectSeq(r.clientOrder,
                                                         LAMBDA d : d # deviceId), deviceId)]
        r3 == addTimelineEvent(touch(r1, t), "join", name,
                               Detail("joined the room", NoPath, name, ""), t)
    IN [room |-> r3, err |-> NullS]

\* Returns [room, err]; err = NullS on success.
addMember(r, deviceId, name, ws, branch, t) ==
  IF Cardinality(DOMAIN r.clients) >= MAX_ROOM_MEMBERS
    THEN [room |-> r, err |-> "full"]
  ELSE IF deviceId \in DOMAIN r.clients
    THEN [room |-> r, err |-> "already_in_room"]
  ELSE
    LET info == NewInfo(deviceId, name, branch, t)
        r1 == [r EXCEPT !.clients = Put(r.clients, deviceId, [ws |-> ws, info |-> info]),
                        !.clientOrder = Append(r.clientOrder, deviceId)]
        r2 == touch(r1, t)
        r3 == addTimelineEvent(r2, "join", name, Detail("joined the room", NoPath, name, ""), t)
    IN [room |-> r3, err |-> NullS]

\* removeMember that forgets to release the member's locks.
removeMember_keepLocks(r, deviceId, t) ==
  IF deviceId \notin DOMAIN r.clients
    THEN [room |-> r, removed |-> FALSE, member |-> NoInfo]
  ELSE
    LET client == r.clients[deviceId]
        r1 == [r EXCEPT !.typingTimers = Without(r.typingTimers, {deviceId})]
        r3 == [r1 EXCEPT !.clients = Without(r1.clients, {deviceId}),
                         !.clientOrder = SelectSeq(r1.clientOrder, LAMBDA d : d # deviceId)]
        r4 == touch(r3, t)
        r5 == addTimelineEvent(r4, "leave", client.info.name,
                               Detail("left the room", NoPath, client.info.name, ""), t)
    IN [room |-> r5, removed |-> TRUE, member |-> client.info]

\* removeMember that appends no timeline event.
removeMember_noEvent(r, deviceId, t) ==
  IF deviceId \notin DOMAIN r.clients
    THEN [room |-> r, removed |-> FALSE, member |-> NoInfo]
  ELSE
    LET client == r.clients[deviceId]
        r1 == [r EXCEPT !.typingTimers = Without(r.typingTimers, {deviceId})]
        owned == {f \in DOMAIN r1.locks : r1.locks[f].deviceId = deviceId}
        r2 == [r1 EXCEPT !.locks = Without(r1.locks, owned)]
        r3 == [r2 EXCEPT !.clients = Without(r2.clients, {deviceId}),
                         !.clientOrder = SelectSeq(r2.clientOrder, LAMBDA d : d # deviceId)]
    IN [room |-> touch(r3, t), removed |-> TRUE, member |-> client.info]

\* Returns [room, removed, member]; removed = FALSE is the null return.
removeMember(r, deviceId, t) ==
  IF deviceId \notin DOMAIN r.clients
    THEN [room |-> r, removed |-> FALSE, member |-> NoInfo]
  ELSE
    LET client == r.clients[deviceId]
        r1 == [r EXCEPT !.typingTimers = Without(r.typingTimers, {deviceId})]
        owned == {f \in DOMAIN r1.locks : r1.locks[f].deviceId = deviceId}
        r2 == [r1 EXCEPT !.locks = Without(r1.locks, owned)]
        r3 == [r2 EXCEPT !.clients = Without(r2.clients, {deviceId}),
                         !.clientOrder = SelectSeq(r2.clientOrder, LAMBDA d : d # deviceId)]
        r4 == touch(r3, t)
        r5 == addTimelineEvent(r4, "leave", client.info.name,
                               Detail("left the room", NoPath, client.info.name, ""), t)
    IN [room |-> r5, removed |-> TRUE, member |-> client.info]

getMember(r, deviceId) ==
  IF deviceId \in DOMAIN r.clients THEN r.clients[deviceId].info ELSE NoInfo

hasMember(r, deviceId) == deviceId \in DOMAIN r.clients

updateHeartbeat(r, deviceId, status, branch, t) ==
  IF deviceId \notin DOMAIN r.clients THEN r
  ELSE
    LET info == r.clients[deviceId].info
        oldBranch == info.branch
        info1 == [info EXCEPT !.lastSeen = t,
                              !.status = status,
                              !.branch = IF Truthy(branch) THEN branch ELSE @]
        r1 == touch([r EXCEPT !.clients[deviceId].info = info1], t)
    IN IF Truthy(branch) /\ Truthy(oldBranch) /\ branch # oldBranch
         THEN addTimelineEvent(r1, "branch_change", info.name,
                               Detail("switched", NoPath, oldBranch, branch), t)
         ELSE r1

\* file = NoPath is setTyping(deviceId, null).
\* setTyping that leaves an earlier timer of the device armed.
setTyping_keepTimer(r, deviceId, file, t) ==
  IF deviceId \notin DOMAIN r.clients THEN r
  ELSE
    LET r1 == [r EXCEPT !.clients[deviceId].info.typingIn = file]
    IN IF file # NoPath
         THEN IF deviceId \in DOMAIN r1.typingTimers THEN r1
              ELSE [r1 EXCEPT !.typingTimers =
                      Put(r1.typingTimers, deviceId,
                          [file |-> file, due |-> t + TYPING_TIMEOUT_MS])]
         ELSE [r1 EXCEPT !.typingTimers = Without(r1.typingTimers, {deviceId})]

setTyping(r, deviceId, file, t) ==
  IF deviceId \notin DOMAIN r.clients THEN r
  ELSE
    LET r1 == [r EXCEPT !.clients[deviceId].info.typingIn = file]
    IN IF file # NoPath
         THEN [r1 EXCEPT !.typingTimers =
                 Put(r1.typingTimers, deviceId, [file |-> file, due |-> t + TYPING_TIMEOUT_MS])]
         ELSE [r1 EXCEPT !.typingTimers = Without(r1.typingTimers, {deviceId})]

\* The setTimeout callback armed by setTyping.  The callback closes over the
\* client object of the seat that armed it; removeMember cancels the timer,
\* so a pending timer always belongs to the current seat.
typingTimerFired(r, deviceId) ==
  LET timer == r.typingTimers[deviceId]
      r1 == IF deviceId \in DOMAIN r.clients
               /\ r.clients[deviceId].info.typingIn = timer.file
              THEN [r EXCEPT !.clients[deviceId].info.typingIn = NoPath]
              ELSE r
  IN [r1 EXCEPT !.typingTimers = Without(r1.typingTimers, {deviceId})]

\* lockFile without the holder check: the newcomer takes the lock over.
lockFile_takeover(r, deviceId, name, file, t) ==
  LET lock == [file |-> file, lockedBy |-> name, deviceId |-> deviceId, lockedAt |-> t]
      r1 == [r EXCEPT !.locks = Put(r.locks, file, lock)]
      r2 == touch(r1, t)
      r3 == addTimelineEvent(r2, "lock", name, Detail("locked", file, name, ""), t)
  IN IF file \in DOMAIN r.locks /\ r.locks[file].deviceId = deviceId
       THEN [room |-> r, success |-> TRUE, error |-> Undef, lockedBy |-> Undef]
       ELSE [room |-> r3, success |-> TRUE, error |-> Undef, lockedBy |-> Undef]

\* lockFile whose holder branch locks again: a fresh record and a second
\* timeline entry.
lockFile_relock(r, deviceId, name, file, t) ==
  LET lock == [file |-> file, lockedBy |-> name, deviceId |-> deviceId, lockedAt |-> t]
      r1 == [r EXCEPT !.locks = Put(r.locks, file, lock)]
      r2 == touch(r1, t)
      r3 == addTimelineEvent(r2, "lock", name, Detail("locked", file, name, ""), t)
  IN IF file \in DOMAIN r.locks /\ r.locks[file].deviceId # deviceId
       THEN [room |-> r, success |-> FALSE, error |-> "locked_by",
             lockedBy |-> r.locks[file].lockedBy]
     ELSE IF file \notin DOMAIN r.locks /\ Cardinality(DOMAIN r.locks) >= MAX_LOCKS_PER_ROOM
       THEN [room |-> r, success |-> FALSE, error |-> "too_many_locks", lockedBy |-> Undef]
     ELSE [room |-> r3, success |-> TRUE, error |-> Undef, lockedBy |-> Undef]

\* Returns [room, success, error, lockedBy]; lockedBy = Undef when absent.
lockFile(r, deviceId, name, file, t) ==
  IF file \in DOMAIN r.locks
    THEN IF r.locks[file].deviceId = deviceId
           THEN [room |-> r, success |-> TRUE, error |-> Undef, lockedBy |-> Undef]
           ELSE [room |-> r, success |-> FALSE, error |-> "locked_by",
                 lockedBy |-> r.locks[file].lockedBy]
  ELSE IF Cardinality(DOMAIN r.locks) >= MAX_LOCKS_PER_ROOM
    THEN [room |-> r, success |-> FALSE, error |-> "too_many_locks", lockedBy |-> Undef]
  ELSE
    LET lock == [file |-> file, lockedBy |-> name, deviceId |-> deviceId, lockedAt |-> t]
        r1 == [r EXCEPT !.locks = Put(r.locks, file, lock)]
        r2 == touch(r1, t)
        r3 == addTimelineEvent(r2, "lock", name, Detail("locked", file, name, ""), t)
    IN [room |-> r3, success |-> TRUE, error |-> Undef, lockedBy |-> Undef]

\* Returns [room, success, error, lockedBy].
unlockFile(r, deviceId, name, file, t) ==
  IF file \notin DOMAIN r.locks
    THEN [room |-> r, success |-> TRUE, error |-> Undef, lockedBy |-> Undef]
  ELSE IF r.locks[file].deviceId # deviceId
    THEN [room |-> r, success |-> FALSE, error |-> "only_holder_can_unlock",
          lockedBy |-> r.locks[file].lockedBy]
  ELSE
    LET r1 == [r EXCEPT !.locks = Without(r.locks, {file})]
        r2 == touch(r1, t)
        r3 == addTimelineEvent(r2, "unlock", name, Detail("unlocked", file, name, ""), t)
    IN [room |-> r3, success |-> TRUE, error |-> Undef, lockedBy |-> Undef]

\* getFileLock that never finds a lock.
hasFileLock_never(r, file) == FALSE

hasFileLock(r, file) == file \in DOMAIN r.locks

getFileLock(r, file) == r.locks[file]

\* Record<DevName, string>: one entry per distinct member name that has a branch;
\* a later member with the same name overwrites an earlier one.
getBranches(r) ==
  LET devs == SelectSeq(r.clientOrder, LAMBDA d : Truthy(r.clients[d].info.branch))
      names == {r.clients[devs[i]].info.name : i \in 1..Len(devs)}
      lastOf(n) == CHOOSE i \in 1..Len(devs) :
                     /\ r.clients[devs[i]].info.name = n
                     /\ \A j \in 1..Len(devs) :
                          r.clients[devs[j]].info.name = n => j <= i
  IN [n \in names |-> r.clients[devs[lastOf(n)]].info.branch]

checkBranchDivergence(r) ==
  LET branches == getBranches(r)
      uniqueBranches == {branches[n] : n \in DOMAIN branches}
  IN [diverged |-> Cardinality(uniqueBranches) > 1, branches |-> branches]

\* OtherDevsOn that does not skip deviceId itself.
OtherDevsOn_self(r, deviceId, file) ==
  LET devs == SelectSeq(r.clientOrder, LAMBDA d :
                          SeqContains(r.clients[d].info.workingOn, file))
  IN [i \in 1..Len(devs) |-> r.clients[devs[i]].info.name]

\* The names of the members other than deviceId whose workingOn includes file,
\* in iteration order of the member map.
OtherDevsOn(r, deviceId, file) ==
  LET devs == SelectSeq(r.clientOrder, LAMBDA d :
                          d # deviceId /\ SeqContains(r.clients[d].info.workingOn, file))
  IN [i \in 1..Len(devs) |-> r.clients[devs[i]].info.name]

\* updateWorkingFiles that reports no conflict.
updateWorkingFiles_quiet(r, deviceId, name, files, t) ==
  [room |-> IF deviceId \in DOMAIN r.clients
              THEN [r EXCEPT !.clients[deviceId].info.workingOn = files,
                             !.clients[deviceId].info.lastSeen = t]
              ELSE r,
   conflicts |-> <<>>]

\* Returns [room, conflicts]; conflicts is a sequence of [file, otherDevs].
updateWorkingFiles(r, deviceId, name, files, t) ==
  LET r1 == IF deviceId \in DOMAIN r.clients
              THEN [r EXCEPT !.clients[deviceId].info.workingOn = files,
                             !.clients[deviceId].info.lastSeen = t]
              ELSE r
      hit == SelectSeq([i \in 1..Len(files) |->
                          [file |-> files[i], otherDevs |-> OtherDevsOn(r1, deviceId, files[i])]],
                       LAMBDA c : Len(c.otherDevs) > 0)
  IN [room |-> r1, conflicts |-> hit]

\* recordFileChange that trims with slice(0, MAX): keeps the oldest changes.
recordFileChange_keepOldest(r, change, t) ==
  LET pushed == Append(r.recentChanges, change)
      r1 == [r EXCEPT !.recentChanges = IF Len(pushed) > MAX_RECENT_CHANGES
                                         THEN SubSeq(pushed, 1, MAX_RECENT_CHANGES)
                                         ELSE pushed,
                      !.allChanges = Append(r.allChanges, change)]
      r2 == touch(r1, t)
      r3 == addTimelineEvent(r2, "file_change", change.author,
                             Detail(change.type, change.path, change.author, ""), t)
  IN [room |-> r3, conflictingDevs |-> OtherDevsOn(r3, change.deviceId, change.path)]

\* Returns [room, conflictingDevs].
recordFileChange(r, change, t) ==
  LET pushed == Append(r.recentChanges, change)
      r1 == [r EXCEPT !.recentChanges = IF Len(pushed) > MAX_RECENT_CHANGES
                                         THEN SliceLast(pushed, MAX_RECENT_CHANGES)
                                         ELSE pushed,
                      !.allChanges = Append(r.allChanges, change)]
      r2 == touch(r1, t)
      r3 == addTimelineEvent(r2, "file_change", change.author,
                             Detail(change.type, change.path, change.author, ""), t)
  IN [room |-> r3, conflictingDevs |-> OtherDevsOn(r3, change.deviceId, change.path)]

\* findDeadClients with <= in place of <: a member exactly at the timeout
\* counts as dead.
findDeadClients_inclusive(r, timeoutMs, t) ==
  SelectSeq(r.clientOrder, LAMBDA d : r.clients[d].info.lastSeen <= t - timeoutMs)

findDeadClients(r, timeoutMs, t) ==
  SelectSeq(r.clientOrder, LAMBDA d : r.clients[d].info.lastSeen < t - timeoutMs)

\* ------------------------------------------------------------------------
\* Room registry and persistence (src/src/relay/room.ts, RoomManager)
\* ------------------------------------------------------------------------
CodeOrder == <<"HIVE-AAAAAA", "HIVE-BBBBBB">>

MS_PER_HOUR == 3600000

hashPassword(password) == [sha256 |-> password]

\* passwordHash: null
NoHash == [sha256 |-> NullS]

\* isExpired that counts the last millisecond of the period as expired.
isExpired_inclusive(r, t) ==
  IF r.expiresInHours <= 0 THEN FALSE
  ELSE t - r.lastActivity >= r.expiresInHours * MS_PER_HOUR

isExpired(r, t) ==
  IF r.expiresInHours <= 0 THEN FALSE
  ELSE t - r.lastActivity > r.expiresInHours * MS_PER_HOUR

hasRoom(rs, code) == code \in DOMAIN rs

pruneEmptyRooms(rs) == Without(rs, {c \in DOMAIN rs : isEmpty(rs[c])})

pruneExpiredRooms(rs, t) == Without(rs, {c \in DOMAIN rs : isExpired(rs[c], t)})

\* The last elements that toRoomInfo copies of recentChanges and of timeline.
ROOM_INFO_TAIL == 20

\* getLocks() is kept as the set of lock records.
toRoomInfo(r) ==
  [ code |-> r.code,
    createdAt |-> r.createdAt,
    createdBy |-> r.createdBy,
    members |-> [i \in 1..Len(r.clientOrder) |-> r.clients[r.clientOrder[i]].info],
    recentChanges |-> SliceLast(r.recentChanges, ROOM_INFO_TAIL),
    hasPassword |-> r.password # NullS,
    locks |-> {r.locks[f] : f \in DOMAIN r.locks},
    isPublic |-> r.isPublic,
    expiresInHours |-> r.expiresInHours,
    timeline |-> SliceLast(r.timeline, ROOM_INFO_TAIL) ]

toRoomSummary(r) ==
  [ code |-> r.code,
    createdBy |-> r.createdBy,
    createdAt |-> r.createdAt,
    memberCount |-> Cardinality(DOMAIN r.clients),
    memberNames |-> [i \in 1..Len(r.clientOrder) |-> r.clients[r.clientOrder[i]].info.name],
    hasPassword |-> r.password # NullS ]

\* timeline.slice(-limit); slice(-0) is slice(0), the whole array.
getTimeline(r, limit) ==
  IF limit = 0 THEN r.timeline ELSE SliceLast(r.timeline, limit)

updateCursor(r, deviceId, cursor) ==
  IF deviceId \in DOMAIN r.clients
    THEN [r EXCEPT !.clients[deviceId].info.cursor = cursor]
    ELSE r

\* getPublicRooms that lists every non-empty room.
getPublicRooms_all(rs) ==
  LET codes == SelectSeq(CodeOrder, LAMBDA c : c \in DOMAIN rs /\ ~isEmpty(rs[c]))
  IN [i \in 1..Len(codes) |-> toRoomSummary(rs[codes[i]])]

getPublicRooms(rs) ==
  LET codes == SelectSeq(CodeOrder, LAMBDA c :
                           c \in DOMAIN rs /\ rs[c].isPublic /\ ~isEmpty(rs[c]))
  IN [i \in 1..Len(codes) |-> toRoomSummary(rs[codes[i]])]

\* One record per non-empty room; the password itself is not written.
toJSON(rs) ==
  LET codes == SelectSeq(CodeOrder, LAMBDA c : c \in DOMAIN rs /\ ~isEmpty(rs[c]))
  IN [i \in 1..Len(codes) |->
        LET room == rs[codes[i]]
        IN [ code |-> room.code,
             createdAt |-> room.createdAt,
             createdBy |-> room.createdBy,
             hasPassword |-> room.password # NullS,
             passwordHash |-> IF Truthy(room.password)
                                THEN hashPassword(room.password)
                                ELSE NoHash,
             isPublic |-> room.isPublic,
             expiresInHours |-> room.expiresInHours,
             lastActivity |-> room.lastActivity ]]

\* The startup loop over the saved records.  It reads r.password, a key the
\* saved records do not have, so every room is re-created with password
\* undefined.
RECURSIVE loadSaved(_, _, _)
loadSaved(rs, saved, t) ==
  IF saved = <<>> THEN rs
  ELSE LET r == Head(saved)
           rs1 == IF ~hasRoom(rs, r.code)
                    THEN Put(rs, r.code,
                             NewRoom(r.code, r.createdBy, Undef, r.isPublic, r.expiresInHours, t))
                    ELSE rs
       IN loadSaved(rs1, Tail(saved), t)

\* ------------------------------------------------------------------------
\* Relay state (src/src/relay/server.ts)
\* ------------------------------------------------------------------------
VARIABLES
  rooms,    \* RoomManager.rooms: room code -> room, over the codes present
  conns,    \* per connection: transport open?, and the session {deviceId, roomCode}
  clock,    \* now()
  disk,     \* contents of the persistence file (sequence of saved records)
  loading,  \* the startup load of the persistence file has not run yet
  sent,     \* frames written by the last step, in order
  budget,   \* what the run may still spend: timeline events and clock ticks
  env,      \* the input sets of the run; never changes
  agent,    \* one developer's RelayClient and the sockets it has created
  watch     \* the same developer's FileWatcher

vars == <<rooms, conns, clock, disk, loading, sent, budget, env, agent, watch>>

NewSession == [open |-> FALSE, deviceId |-> NoDevice, roomCode |-> NullS]

\* A server frame.  Unused fields keep their defaults.
Frame(to, type, code) ==
  [ to |-> to, type |-> type, code |-> code, name |-> NullS, dev |-> NoDevice,
    file |-> NoPath, err |-> NullS, text |-> NullS, list |-> <<>>, map |-> <<>> ]

isOpen(ws) == ws \in DOMAIN conns /\ conns[ws].open

\* sendMessage(ws, msg)
sendMessage(frame) == IF isOpen(frame.to) THEN <<frame>> ELSE <<>>

sendError(ws, err, name) ==
  sendMessage([Frame(ws, "error", NullS) EXCEPT !.err = err, !.name = name])

\* broadcast that ignores excludeDeviceId.
broadcast_toAll(r, frame, excludeDeviceId) ==
  LET devs == SelectSeq(r.clientOrder, LAMBDA d : isOpen(r.clients[d].ws))
  IN [i \in 1..Len(devs) |-> [frame EXCEPT !.to = r.clients[devs[i]].ws]]

\* Room.broadcast(message, excludeDeviceId): one frame per seat whose
\* transport is open, in member-map order.
broadcast(r, frame, excludeDeviceId) ==
  LET devs == SelectSeq(r.clientOrder, LAMBDA d :
                          d # excludeDeviceId /\ isOpen(r.clients[d].ws))
  IN [i \in 1..Len(devs) |-> [frame EXCEPT !.to = r.clients[devs[i]].ws]]

\* Timeline events appended by a step, summed over the rooms it leaves behind.
RECURSIVE SumOver(_, _)
SumOver(S, f) ==
  IF S = {} THEN 0
  ELSE LET x == CHOOSE y \in S : TRUE IN f[x] + SumOver(S \ {x}, f)

Appended(old, new) ==
  SumOver(DOMAIN new,
          [c \in DOMAIN new |->
             IF c \in DOMAIN old /\ new[c].timelineCounter >= old[c].timelineCounter
               THEN new[c].timelineCounter - old[c].timelineCounter
               ELSE new[c].timelineCounter])

\* Every step that may change rooms goes through Commit or CommitFrame: it
\* is allowed only while the run's budget covers it.  A client frame that
\* appends no timeline event is charged to budget.quiet instead.
Commit(new) ==
  /\ Appended(rooms, new) <= budget.events
  /\ rooms' = new
  /\ budget' = [budget EXCEPT !.events = @ - Appended(rooms, new)]

CommitFrame(new) ==
  /\ rooms' = new
  /\ IF Appended(rooms, new) = 0
       THEN /\ budget.quiet > 0
            /\ budget' = [budget EXCEPT !.quiet = @ - 1]
       ELSE /\ Appended(rooms, new) <= budget.events
            /\ budget' = [budget EXCEPT !.events = @ - Appended(rooms, new)]

\* ws.on("message"): the session's deviceId follows the frame's deviceId
\* before the handler runs.
Session(c, deviceId, roomCode) ==
  conns' = [conns EXCEPT ![c].deviceId = deviceId, ![c].roomCode = roomCode]

SessionKeep(c, deviceId) ==
  conns' = [conns EXCEPT ![c].deviceId = deviceId]

\* ------------------------------------------------------------------------
\* Connections
\* ------------------------------------------------------------------------
Seated(c) == \E code \in DOMAIN rooms : \E d \in DOMAIN rooms[code].clients :
               rooms[code].clients[d].ws = c

\* wss.on("connection"): a new transport with a fresh session.  A slot is
\* reused only when no seat still refers to the transport it held before.
Connect(c) ==
  /\ ~conns[c].open
  /\ ~Seated(c)
  /\ conns' = [conns EXCEPT ![c] = [NewSession EXCEPT !.open = TRUE]]
  /\ sent' = <<>>
  /\ UNCHANGED <<rooms, clock, disk, loading, budget, env, agent, watch>>

\* ------------------------------------------------------------------------
\* Handlers
\* ------------------------------------------------------------------------
\* A name check that lets every name through.
validName_any(name) == TRUE

validName(name) == Truthy(name) /\ Len(name) <= MAX_NAME_LEN

\* generateRoomCode with up to 50 retries: any free code, or, when every
\* draw collided with an existing room, the code of an existing room.
handleCreateRoom(c, deviceId, name, password, isPublic, expiresInHours, branch, code) ==
  /\ isOpen(c)
  /\ UNCHANGED <<clock, disk, loading, env, agent, watch>>
  /\ IF ~validName(name)
       THEN /\ sent' = sendError(c, "name_length", NullS)
            /\ SessionKeep(c, deviceId)
            /\ CommitFrame(rooms)
     ELSE IF hasRoom(rooms, code)
       THEN /\ sent' = sendError(c, "no_unique_code", NullS)
            /\ SessionKeep(c, deviceId)
            /\ CommitFrame(rooms)
     ELSE
       LET room == NewRoom(code, name, password, isPublic, expiresInHours, clock)
           res == addMember(room, deviceId, name, c, branch, clock)
       IN IF res.err # NullS
            THEN /\ sent' = sendError(c, res.err, NullS)
                 /\ SessionKeep(c, deviceId)
                 /\ CommitFrame(rooms)
            ELSE /\ CommitFrame(Put(rooms, code, res.room))
                 /\ Session(c, deviceId, code)
                 /\ sent' = sendMessage([Frame(c, "room_created", code) EXCEPT
                                           !.dev = deviceId, !.name = name])

handleJoinRoom(c, deviceId, name, code, password, branch) ==
  /\ isOpen(c)
  /\ UNCHANGED <<clock, disk, loading, env, agent, watch>>
  /\ IF ~validName(name)
       THEN /\ sent' = sendError(c, "name_length", NullS)
            /\ SessionKeep(c, deviceId)
            /\ CommitFrame(rooms)
     ELSE IF ~hasRoom(rooms, code)
       THEN /\ sent' = sendError(c, "room_not_found", NullS)
            /\ SessionKeep(c, deviceId)
            /\ CommitFrame(rooms)
     ELSE IF ~checkPassword(rooms[code], password)
       THEN /\ sent' = sendError(c, "wrong_password", NullS)
            /\ SessionKeep(c, deviceId)
            /\ CommitFrame(rooms)
     ELSE
       LET res == addMember(rooms[code], deviceId, name, c, branch, clock)
           room == res.room
           branchCheck == checkBranchDivergence(room)
       IN IF res.err # NullS
            THEN /\ sent' = sendError(c, res.err, NullS)
                 /\ SessionKeep(c, deviceId)
                 /\ CommitFrame(rooms)
            ELSE /\ CommitFrame([rooms EXCEPT ![code] = room])
                 /\ Session(c, deviceId, code)
                 /\ sent' =
                      sendMessage([Frame(c, "room_joined", code) EXCEPT
                                     !.dev = deviceId, !.name = name])
                      \o broadcast(room, [Frame(NoConn, "member_joined", code) EXCEPT
                                            !.dev = deviceId, !.name = name], deviceId)
                      \o (IF branchCheck.diverged
                            THEN broadcast(room, [Frame(NoConn, "branch_warning", code) EXCEPT
                                                    !.map = branchCheck.branches], NoDevice)
                            ELSE <<>>)

handleLeaveRoom(c, deviceId, code) ==
  /\ isOpen(c)
  /\ UNCHANGED <<clock, disk, loading, env, agent, watch>>
  /\ IF ~hasRoom(rooms, code)
       THEN /\ sent' = <<>>
            /\ SessionKeep(c, deviceId)
            /\ CommitFrame(rooms)
     ELSE
       LET res == removeMember(rooms[code], deviceId, clock)
           room == res.room
       IN /\ Session(c, deviceId, NullS)
          /\ sent' =
               (IF res.removed
                  THEN broadcast(room, [Frame(NoConn, "member_left", code) EXCEPT
                                          !.dev = deviceId, !.name = res.member.name], NoDevice)
                  ELSE <<>>)
               \o sendMessage(Frame(c, "room_left", code))
          /\ CommitFrame(IF isEmpty(room) THEN Without(rooms, {code})
                                     ELSE [rooms EXCEPT ![code] = room])

handleHeartbeat(c, deviceId, code, status, branch) ==
  /\ isOpen(c)
  /\ SessionKeep(c, deviceId)
  /\ UNCHANGED <<clock, disk, loading, env, agent, watch>>
  /\ IF ~hasRoom(rooms, code)
       THEN /\ sent' = <<>>
            /\ CommitFrame(rooms)
     ELSE
       LET oldBranch == getMember(rooms[code], deviceId).branch
           room == updateHeartbeat(rooms[code], deviceId, status, branch, clock)
           branchCheck == checkBranchDivergence(room)
       IN /\ CommitFrame([rooms EXCEPT ![code] = room])
          /\ sent' =
               (IF Truthy(branch) /\ Truthy(oldBranch) /\ branch # oldBranch
                   /\ branchCheck.diverged
                  THEN broadcast(room, [Frame(NoConn, "branch_warning", code) EXCEPT
                                          !.map = branchCheck.branches], NoDevice)
                  ELSE <<>>)
               \o sendMessage(Frame(c, "heartbeat_ack", code))

handleFileChange(c, deviceId, code, change) ==
  /\ isOpen(c)
  /\ SessionKeep(c, deviceId)
  /\ UNCHANGED <<clock, disk, loading, env, agent, watch>>
  /\ IF ~hasRoom(rooms, code)
       THEN /\ sent' = <<>>
            /\ CommitFrame(rooms)
     ELSE IF hasFileLock(rooms[code], change.path)
             /\ getFileLock(rooms[code], change.path).deviceId # deviceId
       THEN /\ sent' = sendError(c, "file_locked_by",
                                 getFileLock(rooms[code], change.path).lockedBy)
            /\ CommitFrame(rooms)
     ELSE
       LET res == recordFileChange(rooms[code], change, clock)
           room == res.room
           allAuthors == <<change.author>> \o res.conflictingDevs
       IN /\ CommitFrame([rooms EXCEPT ![code] = room])
          /\ sent' =
               broadcast(room, [Frame(NoConn, "file_changed", code) EXCEPT
                                  !.file = change.path, !.dev = change.deviceId,
                                  !.name = change.author, !.list = <<change>>], deviceId)
               \o (IF Len(res.conflictingDevs) > 0
                     THEN broadcast(room, [Frame(NoConn, "conflict_warning", code) EXCEPT
                                             !.file = change.path, !.list = allAuthors],
                                    NoDevice)
                     ELSE <<>>)

MAX_DECLARED_FILES == 100
MAX_PATH_LEN == 500
MAX_CHAT_LEN == 10000

\* A path is kept as its length in characters: paths of different lengths
\* are different paths.
PathLen(path) == path

handleDeclareWorking(c, deviceId, name, code, files) ==
  /\ isOpen(c)
  /\ SessionKeep(c, deviceId)
  /\ UNCHANGED <<clock, disk, loading, env, agent, watch>>
  /\ IF ~hasRoom(rooms, code)
       THEN /\ sent' = <<>>
            /\ CommitFrame(rooms)
     ELSE IF Len(files) > MAX_DECLARED_FILES
       THEN /\ sent' = sendError(c, "too_many_files", NullS)
            /\ CommitFrame(rooms)
     ELSE IF \E i \in 1..Len(files) : PathLen(files[i]) > MAX_PATH_LEN
       THEN /\ sent' = sendError(c, "path_too_long", NullS)
            /\ CommitFrame(rooms)
     ELSE
       LET res == updateWorkingFiles(rooms[code], deviceId, name, files, clock)
           room == res.room
           warn(i) == broadcast(room, [Frame(NoConn, "conflict_warning", code) EXCEPT
                                         !.file = res.conflicts[i].file,
                                         !.list = <<name>> \o res.conflicts[i].otherDevs],
                                NoDevice)
           warnings[i \in 0..Len(res.conflicts)] ==
             IF i = 0 THEN <<>> ELSE warnings[i - 1] \o warn(i)
       IN /\ CommitFrame([rooms EXCEPT ![code] = room])
          /\ sent' =
               (IF hasMember(room, deviceId)
                  THEN broadcast(room, [Frame(NoConn, "member_updated", code) EXCEPT
                                          !.dev = deviceId,
                                          !.name = getMember(room, deviceId).name], deviceId)
                  ELSE <<>>)
               \o warnings[Len(res.conflicts)]

handleChatMessage(c, deviceId, name, code, content) ==
  /\ isOpen(c)
  /\ SessionKeep(c, deviceId)
  /\ UNCHANGED <<clock, disk, loading, env, agent, watch>>
  /\ IF ~hasRoom(rooms, code)
       THEN /\ sent' = <<>>
            /\ CommitFrame(rooms)
     ELSE IF ~Truthy(content) \/ Len(content) > MAX_CHAT_LEN
       THEN /\ sent' = sendError(c, "chat_length", NullS)
            /\ CommitFrame(rooms)
     ELSE
       LET room == addTimelineEvent(rooms[code], "chat", name,
                                    Detail("chat", NoPath, name, content), clock)
       IN /\ CommitFrame([rooms EXCEPT ![code] = room])
          /\ sent' = broadcast(room, [Frame(NoConn, "chat_received", code) EXCEPT
                                        !.name = name, !.text = content], deviceId)

handleDeclareTyping(c, deviceId, name, code, file) ==
  /\ isOpen(c)
  /\ SessionKeep(c, deviceId)
  /\ UNCHANGED <<clock, disk, loading, env, agent, watch>>
  /\ IF ~hasRoom(rooms, code)
       THEN /\ sent' = <<>>
            /\ CommitFrame(rooms)
     ELSE
       LET room == setTyping(rooms[code], deviceId, file, clock)
       IN /\ CommitFrame([rooms EXCEPT ![code] = room])
          /\ sent' = broadcast(room, [Frame(NoConn, "typing_indicator", code) EXCEPT
                                        !.name = name, !.file = file], deviceId)

handleLockFile(c, deviceId, name, code, file) ==
  /\ isOpen(c)
  /\ SessionKeep(c, deviceId)
  /\ UNCHANGED <<clock, disk, loading, env, agent, watch>>
  /\ IF ~hasRoom(rooms, code)
       THEN /\ sent' = <<>>
            /\ CommitFrame(rooms)
     ELSE
       LET res == lockFile(rooms[code], deviceId, name, file, clock)
           room == res.room
       IN /\ CommitFrame([rooms EXCEPT ![code] = room])
          /\ sent' =
               IF res.success
                 THEN IF hasFileLock(room, file)
                        THEN broadcast(room, [Frame(NoConn, "file_locked", code) EXCEPT
                                                !.file = file,
                                                !.name = getFileLock(room, file).lockedBy,
                                                !.dev = getFileLock(room, file).deviceId],
                                       NoDevice)
                        ELSE <<>>
                 ELSE sendMessage([Frame(c, "lock_error", code) EXCEPT
                                     !.file = file,
                                     !.err = IF Truthy(res.error) THEN res.error ELSE "lock_failed",
                                     !.name = IF Truthy(res.lockedBy) THEN res.lockedBy
                                                                      ELSE "unknown"])

handleUnlockFile(c, deviceId, name, code, file) ==
  /\ isOpen(c)
  /\ SessionKeep(c, deviceId)
  /\ UNCHANGED <<clock, disk, loading, env, agent, watch>>
  /\ IF ~hasRoom(rooms, code)
       THEN /\ sent' = <<>>
            /\ CommitFrame(rooms)
     ELSE
       LET res == unlockFile(rooms[code], deviceId, name, file, clock)
           room == res.room
       IN /\ CommitFrame([rooms EXCEPT ![code] = room])
          /\ sent' =
               IF res.success
                 THEN broadcast(room, [Frame(NoConn, "file_unlocked", code) EXCEPT
                                         !.file = file, !.name = name], NoDevice)
                 ELSE sendError(c, IF Truthy(res.error) THEN res.error ELSE "unlock_failed",
                                res.lockedBy)

handleRequestStatus(c, deviceId, code) ==
  /\ isOpen(c)
  /\ SessionKeep(c, deviceId)
  /\ UNCHANGED <<clock, disk, loading, env, agent, watch>>
  /\ CommitFrame(rooms)
  /\ sent' = IF ~hasRoom(rooms, code)
               THEN sendError(c, "room_not_found", NullS)
               ELSE sendMessage([Frame(c, "room_status", code) EXCEPT
                                   !.list = <<toRoomInfo(rooms[code])>>])

handleSyncRequest(c, deviceId, code) ==
  /\ isOpen(c)
  /\ SessionKeep(c, deviceId)
  /\ UNCHANGED <<clock, disk, loading, env, agent, watch>>
  /\ CommitFrame(rooms)
  /\ sent' = IF ~hasRoom(rooms, code)
               THEN sendError(c, "room_not_found", NullS)
               ELSE sendMessage([Frame(c, "room_status", code) EXCEPT
                                   !.list = <<toRoomInfo(rooms[code])>>])

handleUpdateCursor(c, deviceId, name, code, cursor) ==
  /\ isOpen(c)
  /\ SessionKeep(c, deviceId)
  /\ UNCHANGED <<clock, disk, loading, env, agent, watch>>
  /\ IF ~hasRoom(rooms, code)
       THEN /\ sent' = <<>>
            /\ CommitFrame(rooms)
     ELSE
       LET room == updateCursor(rooms[code], deviceId, cursor)
       IN /\ CommitFrame([rooms EXCEPT ![code] = room])
          /\ sent' = broadcast(room, [Frame(NoConn, "cursor_updated", code) EXCEPT
                                        !.name = name, !.text = cursor], deviceId)

MAX_TERMINAL_OUTPUT == 50000

\* terminal is the shared output.
handleShareTerminal(c, deviceId, code, terminal) ==
  /\ isOpen(c)
  /\ SessionKeep(c, deviceId)
  /\ UNCHANGED <<clock, disk, loading, env, agent, watch>>
  /\ CommitFrame(rooms)
  /\ sent' = IF ~hasRoom(rooms, code)
               THEN <<>>
             ELSE IF Len(terminal) > MAX_TERMINAL_OUTPUT
               THEN sendError(c, "terminal_too_large", NullS)
             ELSE broadcast(rooms[code], [Frame(NoConn, "terminal_shared", code) EXCEPT
                                            !.text = terminal], deviceId)

handleListRooms(c, deviceId) ==
  /\ isOpen(c)
  /\ SessionKeep(c, deviceId)
  /\ UNCHANGED <<clock, disk, loading, env, agent, watch>>
  /\ CommitFrame(rooms)
  /\ sent' = sendMessage([Frame(c, "room_list", NullS) EXCEPT !.list = getPublicRooms(rooms)])

DEFAULT_TIMELINE_LIMIT == 50

\* The limit of a get_timeline frame that has none.
NoLimit == -1

\* msg.limit ?? 50
handleGetTimeline(c, deviceId, code, limit) ==
  /\ isOpen(c)
  /\ SessionKeep(c, deviceId)
  /\ UNCHANGED <<clock, disk, loading, env, agent, watch>>
  /\ CommitFrame(rooms)
  /\ sent' = IF ~hasRoom(rooms, code)
               THEN sendError(c, "room_not_found", NullS)
               ELSE sendMessage([Frame(c, "timeline", code) EXCEPT
                                   !.list = getTimeline(rooms[code],
                                                        IF limit = NoLimit
                                                          THEN DEFAULT_TIMELINE_LIMIT
                                                          ELSE limit)])

handleSetWebhook(c, deviceId, code, webhook) ==
  /\ isOpen(c)
  /\ SessionKeep(c, deviceId)
  /\ UNCHANGED <<clock, disk, loading, env, agent, watch>>
  /\ IF ~hasRoom(rooms, code)
       THEN /\ sent' = sendError(c, "room_not_found", NullS)
            /\ CommitFrame(rooms)
       ELSE /\ sent' = <<>>
            /\ CommitFrame([rooms EXCEPT ![code].webhook = webhook])

handleSetRoomVisibility(c, deviceId, code, isPublic) ==
  /\ isOpen(c)
  /\ SessionKeep(c, deviceId)
  /\ UNCHANGED <<clock, disk, loading, env, agent, watch>>
  /\ IF ~hasRoom(rooms, code)
       THEN /\ sent' = sendError(c, "room_not_found", NullS)
            /\ CommitFrame(rooms)
       ELSE /\ sent' = <<>>
            /\ CommitFrame([rooms EXCEPT ![code].isPublic = isPublic])

\* A raw payload that is no frame of the protocol: whether JSON.parse
\* accepts it, what it parses to, the typeof of its type member, and the
\* type when that is a string.
RawFrames ==
  { [json |-> FALSE, kind |-> "none", typeOf |-> "undefined", type |-> Undef],
    [json |-> TRUE, kind |-> "number", typeOf |-> "undefined", type |-> Undef],
    [json |-> TRUE, kind |-> "null", typeOf |-> "undefined", type |-> Undef],
    [json |-> TRUE, kind |-> "array", typeOf |-> "undefined", type |-> Undef],
    [json |-> TRUE, kind |-> "object", typeOf |-> "undefined", type |-> Undef],
    [json |-> TRUE, kind |-> "object", typeOf |-> "number", type |-> Undef],
    [json |-> TRUE, kind |-> "object", typeOf |-> "string", type |-> "bogus"] }

\* What decodeClientMessage returns for a payload it rejects (null).
NoMessage == [type |-> NullS]

\* decodeClientMessage that takes any JSON object for a frame.
decodeClientMessage_anyObject(raw) ==
  IF raw.json /\ raw.kind = "object" THEN [type |-> raw.type] ELSE NoMessage

\* An array passes the typeof test and fails "type" in.
decodeClientMessage(raw) ==
  IF raw.json /\ raw.kind \in {"object", "array"} /\ raw.typeOf = "string"
    THEN [type |-> raw.type]
    ELSE NoMessage

\* ws.on("message") for a payload that is no frame of the protocol: it is
\* answered with an error when it does not decode, and falls through the
\* switch of handleMessage when its type is unknown.
handleRawFrame(c, deviceId, raw) ==
  /\ isOpen(c)
  /\ UNCHANGED <<clock, disk, loading, env, agent, watch>>
  /\ CommitFrame(rooms)
  /\ IF decodeClientMessage(raw) = NoMessage
       THEN /\ sent' = sendError(c, "Invalid message format", NullS)
            /\ UNCHANGED conns
       ELSE /\ sent' = <<>>
            /\ SessionKeep(c, deviceId)

\* The frame types whose handler reads a member of a payload field without
\* testing the field: msg.change.path, msg.terminal.output, and the
\* for...of over msg.files in updateWorkingFiles.
PayloadTypes == {"file_change", "share_terminal", "declare_working"}

\* ws.on("message") for a frame of one of these types that lacks the
\* field.  Without the room the handler returns before the read.  With it
\* the read throws a TypeError inside the listener, which nothing catches:
\* the relay process ends, and with it every room and every transport.
handleWithoutPayload(c, deviceId, type, code) ==
  /\ isOpen(c)
  /\ UNCHANGED <<clock, disk, env, agent, watch>>
  /\ sent' = <<>>
  /\ IF ~hasRoom(rooms, code)
       THEN /\ SessionKeep(c, deviceId)
            /\ CommitFrame(rooms)
            /\ UNCHANGED loading
       ELSE /\ CommitFrame(EmptyMap)
            /\ conns' = [k \in Conns |-> NewSession]
            /\ loading' = TRUE

\* ws.on("close") -> handleDisconnect.  The transport is already closed when
\* the handler broadcasts.
handleDisconnect(c) ==
  /\ isOpen(c)
  /\ conns' = [conns EXCEPT ![c] = NewSession]
  /\ UNCHANGED <<clock, disk, loading, env, agent, watch>>
  /\ IF ~Truthy(conns[c].roomCode) \/ conns[c].deviceId = NoDevice
       THEN /\ sent' = <<>>
            /\ UNCHANGED <<rooms, budget>>
     ELSE IF ~hasRoom(rooms, conns[c].roomCode)
       THEN /\ sent' = <<>>
            /\ UNCHANGED <<rooms, budget>>
     ELSE
       LET code == conns[c].roomCode
           res == removeMember(rooms[code], conns[c].deviceId, clock)
           room == res.room
           others == SelectSeq(room.clientOrder, LAMBDA d :
                                 room.clients[d].ws # c /\ isOpen(room.clients[d].ws))
       IN /\ Commit(IF isEmpty(room) THEN Without(rooms, {code})
                                     ELSE [rooms EXCEPT ![code] = room])
          /\ sent' =
               IF res.removed
                 THEN [i \in 1..Len(others) |->
                         [Frame(room.clients[others[i]].ws, "member_left", code) EXCEPT
                            !.dev = res.member.deviceId, !.name = res.member.name]]
                 ELSE <<>>

\* ------------------------------------------------------------------------
\* Timers
\* ------------------------------------------------------------------------
typingTimeout(code, deviceId) ==
  /\ hasRoom(rooms, code)
  /\ deviceId \in DOMAIN rooms[code].typingTimers
  /\ clock >= rooms[code].typingTimers[deviceId].due
  /\ Commit([rooms EXCEPT ![code] = typingTimerFired(rooms[code], deviceId)])
  /\ sent' = <<>>
  /\ UNCHANGED <<conns, clock, disk, loading, env, agent, watch>>

\* One room's part of the heartbeat sweep: remove the dead clients found at
\* the start, broadcasting member_left after each removal.
RECURSIVE sweepRoom(_, _, _, _)
sweepRoom(r, dead, t, out) ==
  IF dead = <<>> THEN [room |-> r, out |-> out]
  ELSE LET res == removeMember(r, Head(dead), t)
           frames == IF res.removed
                       THEN broadcast(res.room,
                                      [Frame(NoConn, "member_left", r.code) EXCEPT
                                         !.dev = Head(dead), !.name = res.member.name],
                                      NoDevice)
                       ELSE <<>>
       IN sweepRoom(res.room, Tail(dead), t, out \o frames)

heartbeatSweep ==
  LET swept == [c \in DOMAIN rooms |->
                  sweepRoom(rooms[c], findDeadClients(rooms[c], HEARTBEAT_TIMEOUT_MS, clock),
                            clock, <<>>)]
      codes == SelectSeq(CodeOrder, LAMBDA c : c \in DOMAIN rooms)
      outs[i \in 0..Len(codes)] == IF i = 0 THEN <<>> ELSE outs[i - 1] \o swept[codes[i]].out
  IN /\ Commit(pruneEmptyRooms([c \in DOMAIN rooms |-> swept[c].room]))
     /\ sent' = outs[Len(codes)]
        /\ UNCHANGED <<conns, clock, disk, loading, env, agent, watch>>

expirySweep ==
  /\ Commit(pruneExpiredRooms(rooms, clock))
  /\ sent' = <<>>
  /\ UNCHANGED <<conns, clock, disk, loading, env, agent, watch>>

\* Time passes.
Tick(d) ==
  /\ budget.ticks > 0
  /\ clock' = clock + d
  /\ budget' = [budget EXCEPT !.ticks = @ - 1]
  /\ sent' = <<>>
  /\ UNCHANGED <<rooms, conns, disk, loading, env, agent, watch>>

\* ------------------------------------------------------------------------
\* Persistence and restart
\* ------------------------------------------------------------------------
saveRooms ==
  /\ disk' = toJSON(rooms)
  /\ sent' = <<>>
  /\ CommitFrame(rooms)
  /\ UNCHANGED <<conns, clock, loading, env, agent, watch>>

\* The relay process ends and startRelayServer runs again: a new registry,
\* every transport gone, the load of the persistence file scheduled.
restartRelay ==
  /\ Commit(EmptyMap)
  /\ conns' = [c \in Conns |-> NewSession]
  /\ loading' = TRUE
  /\ sent' = <<>>
  /\ UNCHANGED <<clock, disk, env, agent, watch>>

loadPersisted ==
  /\ loading
  /\ loading' = FALSE
  /\ Commit(loadSaved(rooms, disk, clock))
  /\ sent' = <<>>
  /\ UNCHANGED <<conns, clock, disk, env, agent, watch>>

\* ------------------------------------------------------------------------
\* Specification
\* ------------------------------------------------------------------------
Changes(deviceId) ==
  [ path : env.paths, type : ChangeTypes, author : {NameOf(deviceId)}, deviceId : {deviceId},
    timestamp : {clock}, diff : {NullS}, linesAdded : {1}, linesRemoved : {0} ]

\* env.senders pairs each connection with the device ids it uses in the
\* frames it sends.
Next ==
  \/ \E c \in Conns : Connect(c)
  \/ \E s \in env.senders : \E name \in NamesOf(s[2]) \cap env.names,
        password \in env.createPasswords, opt \in env.options,
        branch \in env.branches, code \in env.codes :
       handleCreateRoom(s[1], s[2], name, password, opt.isPublic, opt.expiresInHours,
                        branch, code)
  \/ \E s \in env.senders : \E name \in NamesOf(s[2]) \cap env.names, code \in env.codes,
        password \in env.passwords, branch \in env.branches :
       handleJoinRoom(s[1], s[2], name, code, password, branch)
  \/ \E s \in env.senders, code \in env.codes : handleLeaveRoom(s[1], s[2], code)
  \/ \E s \in env.senders, code \in env.codes, status \in Statuses, branch \in env.branches :
       handleHeartbeat(s[1], s[2], code, status, branch)
  \/ \E s \in env.senders, code \in env.codes : \E change \in Changes(s[2]) :
       handleFileChange(s[1], s[2], code, change)
  \/ \E s \in env.senders, code \in env.codes, files \in env.fileLists :
       handleDeclareWorking(s[1], s[2], NameOf(s[2]), code, files)
  \/ \E s \in env.senders, code \in env.codes, content \in env.contents :
       handleChatMessage(s[1], s[2], NameOf(s[2]), code, content)
  \/ \E s \in env.senders, code \in env.codes, file \in env.typingFiles :
       handleDeclareTyping(s[1], s[2], NameOf(s[2]), code, file)
  \/ \E s \in env.senders : \E name \in NamesOf(s[2]) \cap env.names, code \in env.codes,
        file \in env.paths :
       handleLockFile(s[1], s[2], name, code, file)
  \/ \E s \in env.senders, code \in env.codes, file \in env.paths :
       handleUnlockFile(s[1], s[2], NameOf(s[2]), code, file)
  \/ \E c \in Conns : handleDisconnect(c)
  \/ \E code \in DOMAIN rooms : \E deviceId \in DOMAIN rooms[code].typingTimers :
       typingTimeout(code, deviceId)
  \/ heartbeatSweep
  \/ expirySweep
  \/ \E d \in env.tickSteps : Tick(d)
  \/ saveRooms
  \/ restartRelay
  \/ loadPersisted

\* ------------------------------------------------------------------------
\* The agent's relay client (src/unnamed/part_001, RelayClient)
\* ------------------------------------------------------------------------
MAX_QUEUED_CHANGES == 50
MAX_RECONNECT_ATTEMPTS == 10
BACKOFF_BASE_MS == 1000
BACKOFF_CAP_MS == 30000

\* No pending reconnect timer.
NoTimer == 0

\* The RelayClient after its constructor.  sock is the state of the socket
\* created last ("none" before the first connect()), ws tells whether this.ws
\* still refers to it, reconnectTimer is the delay of the pending timer.
\* owed lists the request frames on that socket the relay has not answered
\* yet.  out holds the frames written by the last step; delays (the delays
\* scheduled since the last open), reported (the changes reported offline
\* since the queue was last emptied) and down (disconnect() was called) are
\* history.  up and inbox are the frames in flight on the socket, to the relay
\* and to the client, where a specification connects the two.
NewClient ==
  [ ws |-> FALSE,
    sock |-> "none",
    heartbeatTimer |-> FALSE,
    reconnectTimer |-> NoTimer,
    shouldReconnect |-> TRUE,
    reconnectAttempts |-> 0,
    currentRoom |-> NullS,
    currentBranch |-> Undef,
    currentPassword |-> Undef,
    pendingListeners |-> <<>>,
    fileChangeQueue |-> <<>>,
    owed |-> <<>>,
    out |-> <<>>,
    delays |-> <<>>,
    reported |-> <<>>,
    down |-> FALSE,
    up |-> <<>>,
    inbox |-> <<>> ]

\* A client frame as the agent writes it.
ClientFrame(type, code) ==
  [type |-> type, code |-> code, password |-> Undef, branch |-> Undef, change |-> 0]

\* get connected()
connected(a) == a.ws /\ a.sock = "open"

\* The frames the relay answers to the sender with a frame the client reads.
AnsweredTypes == {"create_room", "join_room", "leave_room"}

\* send(msg): written only while this.ws is open, dropped otherwise.
send(a, msg) ==
  IF connected(a)
    THEN [a EXCEPT !.out = Append(@, msg),
                   !.owed = IF msg.type \in AnsweredTypes
                              THEN Append(@, [type |-> msg.type, code |-> msg.code])
                              ELSE @]
    ELSE a

RECURSIVE Pow2(_)
Pow2(k) == IF k = 0 THEN 1 ELSE 2 * Pow2(k - 1)

\* Math.min(1000 * 2 ** attempts, 30_000)
backoffDelay(attempts) ==
  IF BACKOFF_BASE_MS * Pow2(attempts) < BACKOFF_CAP_MS
    THEN BACKOFF_BASE_MS * Pow2(attempts)
    ELSE BACKOFF_CAP_MS

\* A schedule whose delay is not capped.
scheduleReconnect_uncapped(a) ==
  IF ~a.shouldReconnect \/ a.reconnectAttempts >= MAX_RECONNECT_ATTEMPTS THEN a
  ELSE [a EXCEPT !.reconnectTimer = BACKOFF_BASE_MS * Pow2(a.reconnectAttempts),
                 !.delays = Append(@, BACKOFF_BASE_MS * Pow2(a.reconnectAttempts)),
                 !.reconnectAttempts = @ + 1]

scheduleReconnect(a) ==
  IF ~a.shouldReconnect \/ a.reconnectAttempts >= MAX_RECONNECT_ATTEMPTS THEN a
  ELSE [a EXCEPT !.reconnectTimer = backoffDelay(a.reconnectAttempts),
                 !.delays = Append(@, backoffDelay(a.reconnectAttempts)),
                 !.reconnectAttempts = @ + 1]

stopHeartbeat(a) == [a EXCEPT !.heartbeatTimer = FALSE]

startHeartbeat(a) == [stopHeartbeat(a) EXCEPT !.heartbeatTimer = TRUE]

handleServerMessage(a, msg) ==
  IF msg.type \in {"room_created", "room_joined"} THEN [a EXCEPT !.currentRoom = msg.code]
  ELSE IF msg.type = "room_left" THEN [a EXCEPT !.currentRoom = NullS]
  ELSE a

\* A flush that sends the queue newest first.
flushFileChangeQueue_reversed(a) ==
  IF ~Truthy(a.currentRoom) \/ Len(a.fileChangeQueue) = 0 THEN a
  ELSE LET n == Len(a.fileChangeQueue)
           frames == [i \in 1..n |->
                        [ClientFrame("file_change", a.currentRoom) EXCEPT
                           !.change = a.fileChangeQueue[n + 1 - i]]]
       IN [a EXCEPT !.out = IF connected(a) THEN @ \o frames ELSE @,
                    !.fileChangeQueue = <<>>,
                    !.reported = <<>>]

flushFileChangeQueue(a) ==
  IF ~Truthy(a.currentRoom) \/ Len(a.fileChangeQueue) = 0 THEN a
  ELSE LET frames == [i \in 1..Len(a.fileChangeQueue) |->
                        [ClientFrame("file_change", a.currentRoom) EXCEPT
                           !.change = a.fileChangeQueue[i]]]
       IN [a EXCEPT !.out = IF connected(a) THEN @ \o frames ELSE @,
                    !.fileChangeQueue = <<>>,
                    !.reported = <<>>]

\* The one-shot listener that the open handler registers for the rejoin.
RejoinListener == [wants |-> {"room_joined", "error"}]

\* The callback of the rejoin listener.
rejoinCallback(a, msg) ==
  IF msg.type = "room_joined" THEN flushFileChangeQueue(a)
  ELSE [a EXCEPT !.fileChangeQueue = <<>>, !.reported = <<>>]

\* Every listener whose predicate matches is called, in order, and removed.
RECURSIVE dispatchFrom(_, _, _)
dispatchFrom(a, msg, i) ==
  IF i > Len(a.pendingListeners) THEN a
  ELSE IF msg.type \in a.pendingListeners[i].wants
    THEN dispatchFrom(rejoinCallback(a, msg), msg, i + 1)
    ELSE dispatchFrom(a, msg, i + 1)

dispatchToPendingListeners(a, msg) ==
  LET called == dispatchFrom(a, msg, 1)
  IN [called EXCEPT !.pendingListeners =
        SelectSeq(@, LAMBDA l : msg.type \notin l.wants)]

\* reportFileChange whose ring drops the newest change when it is full.
reportFileChange_dropNewest(a, change) ==
  IF ~Truthy(a.currentRoom) \/ ~connected(a)
    THEN IF Truthy(a.currentRoom)
           THEN [a EXCEPT !.fileChangeQueue =
                            IF Len(@) >= MAX_QUEUED_CHANGES THEN @ ELSE Append(@, change),
                          !.reported = Append(@, change)]
           ELSE a
    ELSE send(a, [ClientFrame("file_change", a.currentRoom) EXCEPT !.change = change])

reportFileChange(a, change) ==
  IF ~Truthy(a.currentRoom) \/ ~connected(a)
    THEN IF Truthy(a.currentRoom)
           THEN LET pushed == Append(a.fileChangeQueue, change)
                IN [a EXCEPT !.fileChangeQueue =
                                 IF Len(pushed) > MAX_QUEUED_CHANGES THEN Tail(pushed)
                                                                     ELSE pushed,
                             !.reported = Append(@, change)]
           ELSE a
    ELSE send(a, [ClientFrame("file_change", a.currentRoom) EXCEPT !.change = change])

\* connect(): a new socket unless the current one is open.
connect(a) ==
  IF connected(a) THEN a
  ELSE [a EXCEPT !.ws = TRUE, !.sock = "connecting", !.owed = <<>>]

\* The socket's "open" listener.
onOpen(a) ==
  LET up == [startHeartbeat(a) EXCEPT !.sock = "open", !.reconnectAttempts = 0,
                                      !.delays = <<>>]
  IN IF Truthy(up.currentRoom)
       THEN send([up EXCEPT !.pendingListeners = Append(@, RejoinListener)],
                 [ClientFrame("join_room", up.currentRoom) EXCEPT
                    !.password = up.currentPassword,
                    !.branch = up.currentBranch])
       ELSE up

\* The socket's "message" listener.
onMessage(a, msg) == dispatchToPendingListeners(handleServerMessage(a, msg), msg)

\* The socket's "close" listener.
onClose(a) ==
  LET stopped == [stopHeartbeat(a) EXCEPT !.sock = "closed", !.owed = <<>>]
  IN IF stopped.shouldReconnect THEN scheduleReconnect(stopped) ELSE stopped

\* The socket's "error" listener; the socket's "close" event follows.
onError(a) ==
  [a EXCEPT !.sock = "failed",
            !.shouldReconnect = IF a.reconnectAttempts = 0 THEN FALSE ELSE @]

\* The callback of the reconnect timer.
reconnectTimerFired(a) ==
  LET fired == [a EXCEPT !.reconnectTimer = NoTimer]
  IN IF ~fired.shouldReconnect THEN fired ELSE connect(fired)

\* The callback of the heartbeat interval.
heartbeatTimerFired(a) ==
  IF Truthy(a.currentRoom)
    THEN send(a, [ClientFrame("heartbeat", a.currentRoom) EXCEPT !.branch = a.currentBranch])
    ELSE a

\* ws.close(1000, ...): a socket that is open starts the closing handshake,
\* one that is still connecting is aborted (an "error" and a "close" follow).
closeSocket(sock) ==
  CASE sock = "open" -> "closing"
    [] sock = "connecting" -> "aborted"
    [] OTHER -> sock

disconnect(a) ==
  LET stopped == stopHeartbeat([a EXCEPT !.shouldReconnect = FALSE,
                                         !.reconnectTimer = NoTimer,
                                         !.down = TRUE])
      left == IF Truthy(stopped.currentRoom)
                THEN send(stopped, ClientFrame("leave_room", stopped.currentRoom))
                ELSE stopped
  IN [left EXCEPT !.sock = IF left.ws THEN closeSocket(@) ELSE @,
                  !.ws = FALSE,
                  !.currentRoom = NullS,
                  !.pendingListeners = <<>>,
                  !.fileChangeQueue = <<>>,
                  !.reported = <<>>]

setBranch(a, branch) == [a EXCEPT !.currentBranch = branch]

createRoom(a, password) ==
  send([a EXCEPT !.currentPassword = password],
       [ClientFrame("create_room", NullS) EXCEPT !.password = password,
                                                 !.branch = a.currentBranch])

joinRoom(a, code, password) ==
  send([a EXCEPT !.currentPassword = password],
       [ClientFrame("join_room", code) EXCEPT !.password = password,
                                              !.branch = a.currentBranch])

leaveRoom(a) ==
  IF ~Truthy(a.currentRoom) THEN a
  ELSE [send(a, ClientFrame("leave_room", a.currentRoom)) EXCEPT
          !.currentRoom = NullS, !.currentPassword = Undef]

\* The frames the relay may answer a request with.
Answers(request) ==
  CASE request.type = "create_room" ->
         {[type |-> "room_created", code |-> code] : code \in env.codes}
    [] request.type = "join_room" ->
         {[type |-> "room_joined", code |-> request.code],
          [type |-> "error", code |-> NullS]}
    [] OTHER -> {[type |-> "room_left", code |-> NullS]}

relayVars == <<rooms, conns, clock, disk, loading, sent, budget, env>>

\* Every step of the client starts with nothing written yet.
Quiet(a) == [a EXCEPT !.out = <<>>]

\* The host connects once, when it starts.
hostConnect ==
  /\ agent.sock = "none" /\ ~agent.down
  /\ agent' = connect(Quiet(agent))
  /\ UNCHANGED <<relayVars, watch>>

\* A rejoin listener whose answer never came stays registered; connections
\* are opened while fewer than MaxListeners have piled up.
MaxListeners == 2

socketOpen ==
  /\ agent.sock = "connecting"
  /\ Len(agent.pendingListeners) < MaxListeners
  /\ agent' = onOpen(Quiet(agent))
  /\ UNCHANGED <<relayVars, watch>>

\* The sockets of the ws package keep delivering frames while they close.
socketMessage ==
  /\ agent.sock \in {"open", "closing"}
  /\ agent.owed # <<>>
  /\ \E msg \in Answers(Head(agent.owed)) :
       agent' = onMessage([Quiet(agent) EXCEPT !.owed = Tail(@)], msg)
  /\ UNCHANGED <<relayVars, watch>>

socketError ==
  /\ agent.sock \in {"connecting", "open", "aborted"}
  /\ agent' = onError(Quiet(agent))
  /\ UNCHANGED <<relayVars, watch>>

socketClose ==
  /\ agent.sock \in {"open", "closing", "failed"}
  /\ agent' = onClose(Quiet(agent))
  /\ UNCHANGED <<relayVars, watch>>

reconnectTimeout ==
  /\ agent.reconnectTimer # NoTimer
  /\ agent' = reconnectTimerFired(Quiet(agent))
  /\ UNCHANGED <<relayVars, watch>>

heartbeatInterval ==
  /\ agent.heartbeatTimer
  /\ agent' = heartbeatTimerFired(Quiet(agent))
  /\ UNCHANGED <<relayVars, watch>>

\* Requests the relay answers are issued while fewer than MaxOwed are open.
MaxOwed == 2

callSetBranch ==
  /\ \E branch \in env.branches : agent' = setBranch(Quiet(agent), branch)
  /\ UNCHANGED <<relayVars, watch>>

callCreateRoom ==
  /\ Len(agent.owed) < MaxOwed
  /\ \E password \in env.createPasswords : agent' = createRoom(Quiet(agent), password)
  /\ UNCHANGED <<relayVars, watch>>

callJoinRoom ==
  /\ Len(agent.owed) < MaxOwed
  /\ \E code \in env.codes, password \in env.passwords :
       agent' = joinRoom(Quiet(agent), code, password)
  /\ UNCHANGED <<relayVars, watch>>

callLeaveRoom ==
  /\ Len(agent.owed) < MaxOwed
  /\ agent' = leaveRoom(Quiet(agent))
  /\ UNCHANGED <<relayVars, watch>>

\* Changes reported offline are numbered in report order since the queue was
\* last emptied.
callReportFileChange ==
  /\ \E change \in env.changes \cap {Len(agent.reported) + 1} :
       agent' = reportFileChange(Quiet(agent), change)
  /\ UNCHANGED <<relayVars, watch>>

callDisconnect ==
  /\ agent' = disconnect(Quiet(agent))
  /\ UNCHANGED <<relayVars, watch>>

NextAgent ==
  \/ hostConnect
  \/ socketOpen
  \/ socketMessage
  \/ socketError
  \/ socketClose
  \/ reconnectTimeout
  \/ heartbeatInterval
  \/ callSetBranch
  \/ callCreateRoom
  \/ callJoinRoom
  \/ callLeaveRoom
  \/ callReportFileChange
  \/ callDisconnect

\* ------------------------------------------------------------------------
\* The agent's file watcher (src/src/watcher/index.ts, FileWatcher)
\* ------------------------------------------------------------------------
DEFAULT_DEBOUNCE_MS == 300

\* Time passes in steps of TIME_STEP_MS.
TIME_STEP_MS == 100

\* The paths under the project directory that the run touches.
WatchPaths == {"/p/a.ts", "/p/b.ts"}

EventTypes == {"add", "change", "unlink"}

\* No timer handle.
NoHandle == 0

\* The FileWatcher after its constructor.  timers are the armed timeouts of
\* the process (handle, path and type of the closure, time left),
\* debouncedHandlers maps a path to the handle stored for it, fileContents
\* maps a path to the run whose read filled the cache (0: nothing cached),
\* runs are the handleChange calls that wait for their read.  delivered (the
\* changes handed to onFileChange, with the ordinal at which their timer
\* fired), fired, events, seen (the events per path), bursts, handled and
\* cleared (the timers that stop() cleared) count what happened so far.
NewWatcher ==
  [ watcher |-> FALSE,
    timers |-> {},
    debouncedHandlers |-> [path \in WatchPaths |-> NoHandle],
    fileContents |-> [path \in WatchPaths |-> 0],
    runs |-> {},
    delivered |-> <<>>,
    fired |-> 0,
    events |-> 0,
    seen |-> [path \in WatchPaths |-> 0],
    bursts |-> [path \in WatchPaths |-> 0],
    handled |-> [path \in WatchPaths |-> 0],
    cleared |-> [path \in WatchPaths |-> 0] ]

\* start(): events are received from now on.
start(w) == IF w.watcher THEN w ELSE [w EXCEPT !.watcher = TRUE]

\* stop(): every pending timer is cleared, the cache is dropped.
stop(w) ==
  [w EXCEPT !.timers = {t \in @ : \A path \in WatchPaths :
                                     w.debouncedHandlers[path] # t.handle},
            !.debouncedHandlers = [path \in WatchPaths |-> NoHandle],
            !.watcher = FALSE,
            !.fileContents = [path \in WatchPaths |-> 0],
            !.cleared = [path \in WatchPaths |->
                           IF w.debouncedHandlers[path] # NoHandle THEN @[path] + 1
                                                                   ELSE @[path]]]

\* clearTimeout(handle)
clearTimeout(timers, handle) == {t \in timers : t.handle # handle}

\* A scheduleChange that leaves the earlier timer of the path armed.
scheduleChange_noClear(w, path, type) ==
  LET handle == w.events + 1
  IN [w EXCEPT !.timers = @ \cup {[handle |-> handle, path |-> path, type |-> type,
                                    left |-> DEFAULT_DEBOUNCE_MS]},
               !.debouncedHandlers[path] = handle,
               !.events = handle,
               !.seen[path] = @ + 1,
               !.bursts[path] = IF w.debouncedHandlers[path] = NoHandle THEN @ + 1 ELSE @]

\* scheduleChange(path, type): the handler of "add", "change" and "unlink".
\* The new handle is the ordinal of the event.
scheduleChange(w, path, type) ==
  LET handle == w.events + 1
      existing == w.debouncedHandlers[path]
  IN [w EXCEPT !.timers = clearTimeout(@, existing)
                            \cup {[handle |-> handle, path |-> path, type |-> type,
                                   left |-> DEFAULT_DEBOUNCE_MS]},
               !.debouncedHandlers[path] = handle,
               !.events = handle,
               !.seen[path] = @ + 1,
               !.bursts[path] = IF existing = NoHandle THEN @ + 1 ELSE @]

\* this.onFileChange(change)
deliver(w, path, type, ordinal) ==
  [w EXCEPT !.delivered = Append(@, [path |-> path, type |-> type, fired |-> ordinal])]

\* handleChange up to its first await: an unlink has none and reaches the
\* callback in the same turn, the other types wait for readFile or stat.
handleChange(w, path, type, ordinal) ==
  IF type = "unlink"
    THEN deliver([w EXCEPT !.fileContents[path] = 0], path, type, ordinal)
    ELSE [w EXCEPT !.runs = @ \cup {[path |-> path, type |-> type, fired |-> ordinal]}]

\* handleChange after its await: a failed read ends the run silently, a read
\* that succeeded fills the cache and reaches the callback.
handleChangeResumed(w, run, ok) ==
  LET done == [w EXCEPT !.runs = @ \ {run}]
  IN IF ok
       THEN deliver([done EXCEPT !.fileContents[run.path] = run.fired],
                    run.path, run.type, run.fired)
       ELSE done

\* The callback of a debounce timer.
debounceTimerFired(w, t) ==
  handleChange([w EXCEPT !.timers = @ \ {t},
                         !.debouncedHandlers[t.path] = NoHandle,
                         !.fired = @ + 1,
                         !.handled[t.path] = @ + 1],
               t.path, t.type, w.fired + 1)

\* Events are followed until MaxFsEvents of them have arrived.
MaxFsEvents == 3

clientVars == <<relayVars, agent>>

startWatcher ==
  /\ ~watch.watcher
  /\ watch' = start(watch)
  /\ UNCHANGED clientVars

stopWatcher ==
  /\ watch.watcher
  /\ watch' = stop(watch)
  /\ UNCHANGED clientVars

fsEvent ==
  /\ watch.watcher
  /\ watch.events < MaxFsEvents
  /\ \E path \in env.paths, type \in env.types :
       watch' = scheduleChange(watch, path, type)
  /\ UNCHANGED clientVars

\* TIME_STEP_MS pass; a timer that is due fires before more time passes.
timePasses ==
  /\ watch.timers # {}
  /\ \A t \in watch.timers : t.left >= TIME_STEP_MS
  /\ watch' = [watch EXCEPT !.timers = {[t EXCEPT !.left = @ - TIME_STEP_MS] : t \in @}]
  /\ UNCHANGED clientVars

debounceTimeout ==
  /\ \E t \in watch.timers :
       /\ t.left = 0
       /\ watch' = debounceTimerFired(watch, t)
  /\ UNCHANGED clientVars

\* The read of a waiting run completes, in any order among the waiting runs.
readCompletes ==
  /\ \E run \in watch.runs, ok \in BOOLEAN :
       watch' = handleChangeResumed(watch, run, ok)
  /\ UNCHANGED clientVars

NextWatch ==
  \/ startWatcher
  \/ stopWatcher
  \/ fsEvent
  \/ timePasses
  \/ debounceTimeout
  \/ readCompletes

\* Inputs of the frames that Next leaves out.
Limits == {NoLimit, 0, 1}
Cursors == {NullS, "main.ts:1:1"}
Webhooks == {NullS, "https://hooks.example/codehive"}

\* A string of n characters.
RECURSIVE Chars(_)
Chars(n) ==
  IF n = 0 THEN ""
  ELSE IF n = 1 THEN "x"
  ELSE LET half == Chars(n \div 2)
       IN half \o half \o (IF n % 2 = 1 THEN "x" ELSE "")

\* Inputs just past each limit that a handler validates.
LongName == Chars(MAX_NAME_LEN + 1)
LongChat == Chars(MAX_CHAT_LEN + 1)
LongOutput == Chars(MAX_TERMINAL_OUTPUT + 1)
LongPath == MAX_PATH_LEN + 1
ManyFiles == [i \in 1..(MAX_DECLARED_FILES + 1) |-> 1]
Terminals == {"$ npm test", LongOutput}

\* Every frame the relay can receive: the frames of Next, the frames of the
\* other cases of handleMessage, frames with an input past a limit, payloads
\* that are no frame, and frames that lack their payload field.
NextRelay ==
  \/ Next
  \/ \E s \in env.senders, code \in env.codes : handleRequestStatus(s[1], s[2], code)
  \/ \E s \in env.senders, code \in env.codes : handleSyncRequest(s[1], s[2], code)
  \/ \E s \in env.senders, code \in env.codes, cursor \in Cursors :
       handleUpdateCursor(s[1], s[2], NameOf(s[2]), code, cursor)
  \/ \E s \in env.senders, code \in env.codes, terminal \in Terminals :
       handleShareTerminal(s[1], s[2], code, terminal)
  \/ \E s \in env.senders : handleListRooms(s[1], s[2])
  \/ \E s \in env.senders, code \in env.codes, limit \in Limits :
       handleGetTimeline(s[1], s[2], code, limit)
  \/ \E s \in env.senders, code \in env.codes, webhook \in Webhooks :
       handleSetWebhook(s[1], s[2], code, webhook)
  \/ \E s \in env.senders, code \in env.codes, isPublic \in BOOLEAN :
       handleSetRoomVisibility(s[1], s[2], code, isPublic)
  \/ \E s \in env.senders, code \in env.codes :
       handleCreateRoom(s[1], s[2], LongName, Undef, FALSE, 0, Undef, code)
  \/ \E s \in env.senders, code \in env.codes :
       handleJoinRoom(s[1], s[2], LongName, code, Undef, Undef)
  \/ \E s \in env.senders, code \in env.codes :
       handleChatMessage(s[1], s[2], NameOf(s[2]), code, LongChat)
  \/ \E s \in env.senders, code \in env.codes, files \in {ManyFiles, <<LongPath>>} :
       handleDeclareWorking(s[1], s[2], NameOf(s[2]), code, files)
  \/ \E s \in env.senders, raw \in RawFrames : handleRawFrame(s[1], s[2], raw)
  \/ \E s \in env.senders, type \in PayloadTypes, code \in env.codes :
       handleWithoutPayload(s[1], s[2], type, code)

\* The relay right after startRelayServer on a machine without a persistence
\* file (the startup load finds nothing).
MainEnv ==
  [ senders |-> {<<1, 1>>, <<2, 2>>},
    codes |-> {"HIVE-AAAAAA"},
    paths |-> {1},
    names |-> {"", "Zeus", "Alice"},
    createPasswords |-> {Undef, "secret123"},
    passwords |-> {Undef, "secret123", "wrong"},
    branches |-> {Undef, "main"},
    options |-> {[isPublic |-> FALSE, expiresInHours |-> 0]},
    fileLists |-> {<<>>, <<1>>},
    contents |-> {"", "hello"},
    typingFiles |-> {NoPath, 1},
    tickSteps |-> {MS_PER_HOUR} ]

NewBudget == [events |-> MaxEvents, ticks |-> MaxTicks, quiet |-> MaxQuiet]

Init ==
  /\ rooms = EmptyMap
  /\ conns = [c \in Conns |-> NewSession]
  /\ clock = 0
  /\ disk = <<>>
  /\ loading = FALSE
  /\ sent = <<>>
  /\ budget = NewBudget
  /\ env = MainEnv
  /\ agent = NewClient
  /\ watch = NewWatcher

Spec == Init /\ [][Next]_vars

\* A team at work: Zeus created the room over connection 1 and Alice joined
\* it over connection 2 (the state handleCreateRoom and handleJoinRoom leave).
TeamCode == "HIVE-AAAAAA"

TeamRoom ==
  LET created == addMember(NewRoom(TeamCode, "Zeus", Undef, FALSE, 0, 0),
                           1, "Zeus", 1, "main", 0).room
  IN addMember(created, 2, "Alice", 2, "main", 0).room

TeamSessions ==
  [c \in Conns |-> [open |-> TRUE, deviceId |-> c, roomCode |-> TeamCode]]

InitTeam ==
  /\ rooms = [code \in {TeamCode} |-> TeamRoom]
  /\ conns = TeamSessions
  /\ clock = 0
  /\ disk = <<>>
  /\ loading = FALSE
  /\ sent = <<>>
  /\ budget = NewBudget
  /\ env = MainEnv
  /\ agent = NewClient
  /\ watch = NewWatcher

SpecTeam == InitTeam /\ [][Next]_vars

\* The same team with time passing in steps right at and right past the
\* heartbeat timeout.
BeatEnv ==
  [ MainEnv EXCEPT !.names = {"Zeus", "Alice"},
                   !.passwords = {Undef},
                   !.createPasswords = {Undef},
                   !.fileLists = {<<1>>},
                   !.contents = {"hello"},
                   !.typingFiles = {1},
                   !.tickSteps = {HEARTBEAT_TIMEOUT_MS, HEARTBEAT_TIMEOUT_MS + 1} ]

InitBeat ==
  /\ rooms = [code \in {TeamCode} |-> TeamRoom]
  /\ conns = TeamSessions
  /\ clock = 0
  /\ disk = <<>>
  /\ loading = FALSE
  /\ sent = <<>>
  /\ budget = NewBudget
  /\ env = BeatEnv
  /\ agent = NewClient
  /\ watch = NewWatcher

SpecBeat == InitBeat /\ [][Next]_vars

\* The team at their desks: Zeus has declared that he works on file 1, and
\* frames may name a second branch and a second file.
DeskRoom == updateWorkingFiles(TeamRoom, 1, "Zeus", <<1>>, 0).room

DeskEnv ==
  [ MainEnv EXCEPT !.names = {"Zeus", "Alice"},
                   !.passwords = {Undef},
                   !.createPasswords = {Undef},
                   !.branches = {Undef, "feature"},
                   !.fileLists = {<<1>>, <<2>>},
                   !.contents = {"hello"},
                   !.typingFiles = {1} ]

InitDesk ==
  /\ rooms = [code \in {TeamCode} |-> DeskRoom]
  /\ conns = TeamSessions
  /\ clock = 0
  /\ disk = <<>>
  /\ loading = FALSE
  /\ sent = <<>>
  /\ budget = NewBudget
  /\ env = DeskEnv
  /\ agent = NewClient
  /\ watch = NewWatcher

SpecDesk == InitDesk /\ [][Next]_vars

\* The team in a room that Zeus created public, receiving every kind of
\* frame.
LobbyRoom ==
  LET created == addMember(NewRoom(TeamCode, "Zeus", Undef, TRUE, 0, 0),
                           1, "Zeus", 1, "main", 0).room
  IN addMember(created, 2, "Alice", 2, "main", 0).room

LobbyEnv ==
  [ MainEnv EXCEPT !.names = {"", "Zeus", "Alice"},
                   !.passwords = {Undef},
                   !.createPasswords = {Undef},
                   !.branches = {Undef},
                   !.options = {[isPublic |-> TRUE, expiresInHours |-> 0]},
                   !.fileLists = {<<1>>},
                   !.contents = {"", "hello"},
                   !.typingFiles = {1} ]

LobbyBudget == [events |-> MaxEvents - 1, ticks |-> MaxTicks, quiet |-> MaxQuiet + 1]

InitLobby ==
  /\ rooms = [code \in {TeamCode} |-> LobbyRoom]
  /\ conns = TeamSessions
  /\ clock = 0
  /\ disk = <<>>
  /\ loading = FALSE
  /\ sent = <<>>
  /\ budget = LobbyBudget
  /\ env = LobbyEnv
  /\ agent = NewClient
  /\ watch = NewWatcher

SpecLobby == InitLobby /\ [][NextRelay]_vars

\* Two developers whose agents run under the same user name (the name
\* defaults to the operating system's user name), both on branch main.
TwinRoom ==
  LET created == addMember(NewRoom(TeamCode, "Zeus", Undef, FALSE, 0, 0),
                           1, "Zeus", 1, "main", 0).room
  IN addMember(created, 2, "Zeus", 2, "main", 0).room

InitTwin ==
  /\ rooms = [code \in {TeamCode} |-> TwinRoom]
  /\ conns = TeamSessions
  /\ clock = 0
  /\ disk = <<>>
  /\ loading = FALSE
  /\ sent = <<>>
  /\ budget = NewBudget
  /\ env = DeskEnv
  /\ agent = NewClient
  /\ watch = NewWatcher

SpecTwin == InitTwin /\ [][Next]_vars

\* Two rooms created at time 0, Zeus's with expiresInHours = 1 and Alice's
\* without expiry, and time passing in steps right at and right past one
\* hour.
KeptCode == "HIVE-BBBBBB"

ExpiryRooms ==
  [code \in {TeamCode, KeptCode} |->
     IF code = TeamCode
       THEN addMember(NewRoom(TeamCode, "Zeus", Undef, FALSE, 1, 0), 1, "Zeus", 1, Undef, 0).room
       ELSE addMember(NewRoom(KeptCode, "Alice", Undef, FALSE, 0, 0), 2, "Alice", 2, Undef, 0).room]

ExpirySessions ==
  [c \in Conns |-> [open |-> TRUE, deviceId |-> c,
                    roomCode |-> IF c = 1 THEN TeamCode ELSE KeptCode]]

ExpiryEnv ==
  [ MainEnv EXCEPT !.names = {"Zeus", "Alice"},
                   !.passwords = {Undef},
                   !.createPasswords = {Undef},
                   !.branches = {Undef},
                   !.options = {[isPublic |-> FALSE, expiresInHours |-> 1]},
                   !.fileLists = {<<1>>},
                   !.contents = {"hello"},
                   !.typingFiles = {1},
                   !.tickSteps = {MS_PER_HOUR, MS_PER_HOUR + 1} ]

InitExpiry ==
  /\ rooms = ExpiryRooms
  /\ conns = ExpirySessions
  /\ clock = 0
  /\ disk = <<>>
  /\ loading = FALSE
  /\ sent = <<>>
  /\ budget = NewBudget
  /\ env = ExpiryEnv
  /\ agent = NewClient
  /\ watch = NewWatcher

SpecExpiry == InitExpiry /\ [][Next]_vars

\* The team typing in two files, with time passing in steps of the typing
\* timeout.
TypingEnv ==
  [ MainEnv EXCEPT !.names = {"Zeus", "Alice"},
                   !.passwords = {Undef},
                   !.createPasswords = {Undef},
                   !.branches = {Undef},
                   !.fileLists = {<<1>>},
                   !.contents = {"hello"},
                   !.typingFiles = {NoPath, 1, 2},
                   !.tickSteps = {TYPING_TIMEOUT_MS} ]

TypingBudget == [events |-> MaxEvents - 1, ticks |-> MaxTicks, quiet |-> MaxQuiet + 1]

InitTyping ==
  /\ rooms = [code \in {TeamCode} |-> TeamRoom]
  /\ conns = TeamSessions
  /\ clock = 0
  /\ disk = <<>>
  /\ loading = FALSE
  /\ sent = <<>>
  /\ budget = TypingBudget
  /\ env = TypingEnv
  /\ agent = NewClient
  /\ watch = NewWatcher

SpecTyping == InitTyping /\ [][Next]_vars

\* The agent process right after the RelayClient is constructed; the relay is
\* not stepped.
MaxReports == 3

AgentEnv ==
  [ codes |-> {"HIVE-AAAAAA"},
    createPasswords |-> {Undef},
    passwords |-> {"secret123"},
    branches |-> {"main"},
    changes |-> 1..MaxReports ]

InitAgent ==
  /\ rooms = EmptyMap
  /\ conns = [c \in Conns |-> NewSession]
  /\ clock = 0
  /\ disk = <<>>
  /\ loading = FALSE
  /\ sent = <<>>
  /\ budget = NewBudget
  /\ env = AgentEnv
  /\ agent = NewClient
  /\ watch = NewWatcher

SpecAgent == InitAgent /\ [][NextAgent]_vars

\* The same process followed through enough offline reports to fill the
\* file-change queue and push two changes out of it.
MaxQueueReports == MAX_QUEUED_CHANGES + 2

QueueEnv == [AgentEnv EXCEPT !.changes = 1..MaxQueueReports]

InitQueue ==
  /\ rooms = EmptyMap
  /\ conns = [c \in Conns |-> NewSession]
  /\ clock = 0
  /\ disk = <<>>
  /\ loading = FALSE
  /\ sent = <<>>
  /\ budget = NewBudget
  /\ env = QueueEnv
  /\ agent = NewClient
  /\ watch = NewWatcher

SpecQueue == InitQueue /\ [][NextAgent]_vars

\* The agent process right after the FileWatcher is constructed.
WatchEnv == [paths |-> WatchPaths, types |-> EventTypes]

InitWatch ==
  /\ rooms = EmptyMap
  /\ conns = [c \in Conns |-> NewSession]
  /\ clock = 0
  /\ disk = <<>>
  /\ loading = FALSE
  /\ sent = <<>>
  /\ budget = NewBudget
  /\ env = WatchEnv
  /\ agent = NewClient
  /\ watch = NewWatcher

SpecWatch == InitWatch /\ [][NextWatch]_vars

\* A room one short of both limits: devices 1..19 joined one after another
\* over connection 1 (the session follows the device id of the last frame),
\* and Zeus locked paths 1..49.
CapCode == "HIVE-AAAAAA"

\* Both folds split the range in two; comparing the first half's result with
\* r makes TLC evaluate it before the second half starts.
RECURSIVE SeatAll(_, _, _)
SeatAll(r, d, n) ==
  IF d > n THEN r
  ELSE IF d = n THEN addMember(r, d, NameOf(d), 1, Undef, 0).room
  ELSE LET mid == (d + n) \div 2
           half == SeatAll(r, d, mid)
       IN IF Len(half.clientOrder) > Len(r.clientOrder)
            THEN SeatAll(half, mid + 1, n)
            ELSE r

RECURSIVE LockAll(_, _, _)
LockAll(r, file, n) ==
  IF file > n THEN r
  ELSE IF file = n THEN lockFile(r, 1, "Zeus", file, 0).room
  ELSE LET mid == (file + n) \div 2
           half == LockAll(r, file, mid)
       IN IF half.timelineCounter > r.timelineCounter
            THEN LockAll(half, mid + 1, n)
            ELSE r

CapRoom ==
  LockAll(SeatAll(NewRoom(CapCode, "Zeus", Undef, FALSE, 0, 0), 1, MAX_ROOM_MEMBERS - 1),
          1, MAX_LOCKS_PER_ROOM - 1)

CapEnv ==
  [ senders |-> {<<1, MAX_ROOM_MEMBERS>>, <<2, MAX_ROOM_MEMBERS + 1>>},
    codes |-> {CapCode},
    paths |-> {MAX_LOCKS_PER_ROOM, MAX_LOCKS_PER_ROOM + 1},
    names |-> {"", "Alice"},
    createPasswords |-> {Undef},
    passwords |-> {Undef},
    branches |-> {Undef},
    options |-> {[isPublic |-> FALSE, expiresInHours |-> 0]},
    fileLists |-> {<<MAX_LOCKS_PER_ROOM>>},
    contents |-> {"hello"},
    typingFiles |-> {MAX_LOCKS_PER_ROOM},
    tickSteps |-> {MS_PER_HOUR} ]

InitCap ==
  /\ rooms = [code \in {CapCode} |-> CapRoom]
  /\ conns = [c \in Conns |->
                IF c = 1 THEN [open |-> TRUE, deviceId |-> MAX_ROOM_MEMBERS - 1,
                               roomCode |-> CapCode]
                         ELSE NewSession]
  /\ clock = 0
  /\ disk = <<>>
  /\ loading = FALSE
  /\ sent = <<>>
  /\ budget = NewBudget
  /\ env = CapEnv
  /\ agent = NewClient
  /\ watch = NewWatcher

SpecCap == InitCap /\ [][Next]_vars

\* A busy room one short of both rings: after Zeus and Alice joined, Zeus
\* sent 99 file changes and Alice 98 chat messages (199 timeline events).
RingChange(i) ==
  [ path |-> 1, type |-> "change", author |-> "Zeus", deviceId |-> 1,
    timestamp |-> 0, diff |-> NullS, linesAdded |-> i, linesRemoved |-> 0 ]

RECURSIVE ChangeTimes(_, _, _)
ChangeTimes(r, i, n) ==
  IF i > n THEN r
  ELSE IF i = n THEN recordFileChange(r, RingChange(i), 0).room
  ELSE LET mid == (i + n) \div 2
           half == ChangeTimes(r, i, mid)
       IN IF Len(half.allChanges) > Len(r.allChanges)
            THEN ChangeTimes(half, mid + 1, n)
            ELSE r

RECURSIVE ChatTimes(_, _, _)
ChatTimes(r, i, n) ==
  IF i > n THEN r
  ELSE IF i = n THEN addTimelineEvent(r, "chat", "Alice",
                                      Detail("chat", NoPath, "Alice", "hello"), 0)
  ELSE LET mid == (i + n) \div 2
           half == ChatTimes(r, i, mid)
       IN IF half.timelineCounter > r.timelineCounter
            THEN ChatTimes(half, mid + 1, n)
            ELSE r

RingRoom ==
  ChatTimes(ChangeTimes(TeamRoom, 1, MAX_RECENT_CHANGES - 1),
            1, MAX_TIMELINE_EVENTS - MAX_RECENT_CHANGES - 2)

RingEnv ==
  [ senders |-> {<<1, 1>>, <<2, 2>>},
    codes |-> {TeamCode},
    paths |-> {1},
    names |-> {"Zeus", "Alice"},
    createPasswords |-> {Undef},
    passwords |-> {Undef},
    branches |-> {Undef},
    options |-> {[isPublic |-> FALSE, expiresInHours |-> 0]},
    fileLists |-> {<<1>>},
    contents |-> {"hello"},
    typingFiles |-> {1},
    tickSteps |-> {MS_PER_HOUR} ]

InitRing ==
  /\ rooms = [code \in {TeamCode} |-> RingRoom]
  /\ conns = TeamSessions
  /\ clock = 0
  /\ disk = <<>>
  /\ loading = FALSE
  /\ sent = <<>>
  /\ budget = NewBudget
  /\ env = RingEnv
  /\ agent = NewClient
  /\ watch = NewWatcher

SpecRing == InitRing /\ [][Next]_vars

\* ------------------------------------------------------------------------
\* Properties
\* ------------------------------------------------------------------------
\* The lock on file in room code is held by a device other than deviceId.
HeldByOther(code, file, deviceId) ==
  /\ code \in DOMAIN rooms
  /\ file \in DOMAIN rooms[code].locks
  /\ rooms[code].locks[file].deviceId # deviceId

\* The only frame of the step is an error-like reply of the given type to ws.
OnlyReply(frames, ws, type) ==
  /\ Len(frames) = 1
  /\ frames[1].to = ws
  /\ frames[1].type = type

\* Every lock record is stored under its own path: one record per path.
C1_OneRecordPerPath ==
  \A code \in DOMAIN rooms : \A file \in DOMAIN rooms[code].locks :
    rooms[code].locks[file].file = file

\* A lock_file for a path another device holds is refused with a lock_error
\* whose lockedBy is shown(holder name); the registry is unchanged.
C1_LockRefused(shown(_)) ==
  \A s \in env.senders, name \in Names, code \in Codes, file \in Paths :
    (HeldByOther(code, file, s[2]) /\ handleLockFile(s[1], s[2], name, code, file))
      => /\ rooms' = rooms
         /\ OnlyReply(sent', s[1], "lock_error")
         /\ sent'[1].file = file
         /\ sent'[1].name = shown(rooms[code].locks[file].lockedBy)

\* An unlock_file for a path another device holds is refused with an error
\* reply; the registry is unchanged.
C1_UnlockRefused ==
  \A s \in env.senders, name \in Names, code \in Codes, file \in Paths :
    (HeldByOther(code, file, s[2]) /\ handleUnlockFile(s[1], s[2], name, code, file))
      => /\ rooms' = rooms
         /\ OnlyReply(sent', s[1], "error")

\* In a room that outlives the step, a lock record goes away or changes only
\* by an unlock_file carrying the holder's device id or by the holder's
\* removal from the room.
C1_ReleasedByHolder ==
  \A code \in (DOMAIN rooms) \cap (DOMAIN rooms') :
    \A file \in DOMAIN rooms[code].locks :
      LET lock == rooms[code].locks[file]
      IN (file \notin DOMAIN rooms'[code].locks \/ rooms'[code].locks[file] # lock)
           => \/ \E s \in env.senders, name \in Names :
                   s[2] = lock.deviceId /\ handleUnlockFile(s[1], s[2], name, code, file)
              \/ /\ lock.deviceId \in DOMAIN rooms[code].clients
                 /\ lock.deviceId \notin DOMAIN rooms'[code].clients

SameName(n) == n

\* `result.lockedBy || "unknown"` as the reply shows a holder name.
ShownHolder(n) == IF Truthy(n) THEN n ELSE "unknown"

\* C1 as stated: at most one lock record per path; while a device holds the
\* lock on a path, every lock_file and unlock_file for it with a different
\* device id fails, the lock_error carrying the holder's name, and leaves the
\* lock unchanged; the lock disappears only through the holder's unlock_file
\* or the holder's removal.
C1_AsStated ==
  /\ []C1_OneRecordPerPath
  /\ [][C1_LockRefused(SameName) /\ C1_UnlockRefused /\ C1_ReleasedByHolder]_vars

\* C1 (amended): as above, except that the lock_error carries the holder's
\* name only when that name is non-empty, and "unknown" otherwise.
C1_LockExclusive ==
  /\ []C1_OneRecordPerPath
  /\ [][C1_LockRefused(ShownHolder) /\ C1_UnlockRefused /\ C1_ReleasedByHolder]_vars

\* A lock_file by another device was just refused, naming the holder.
C1_Witness ==
  \E code \in DOMAIN rooms : \E file \in DOMAIN rooms[code].locks :
    /\ Len(sent) = 1
    /\ sent[1].type = "lock_error"
    /\ sent[1].code = code
    /\ sent[1].file = file
    /\ sent[1].name = rooms[code].locks[file].lockedBy
    /\ conns[sent[1].to].deviceId # rooms[code].locks[file].deviceId

\* A file_change for a path locked by another device: an error reply that
\* names the lock holder, nothing recorded, nothing broadcast.
C2_Rejected ==
  \A s \in env.senders, code \in Codes : \A change \in Changes(s[2]) :
    (HeldByOther(code, change.path, s[2]) /\ handleFileChange(s[1], s[2], code, change))
      => /\ rooms' = rooms
         /\ OnlyReply(sent', s[1], "error")
         /\ sent'[1].err = "file_locked_by"
         /\ sent'[1].name = rooms[code].locks[change.path].lockedBy
         /\ \A i \in 1..Len(sent') :
              sent'[i].type \notin {"file_changed", "conflict_warning"}

\* A file_change for an unlocked path, or one the sender holds: the change is
\* appended to recentChanges, a file_change event to the timeline, activity
\* is touched, and every other member with an open transport gets
\* file_changed carrying the change.
C2_Recorded ==
  \A s \in env.senders, code \in Codes : \A change \in Changes(s[2]) :
    (/\ code \in DOMAIN rooms
     /\ ~HeldByOther(code, change.path, s[2])
     /\ handleFileChange(s[1], s[2], code, change))
      => /\ code \in DOMAIN rooms'
         /\ rooms'[code].recentChanges =
              SliceLast(Append(rooms[code].recentChanges, change), MAX_RECENT_CHANGES)
         /\ rooms'[code].timelineCounter = rooms[code].timelineCounter + 1
         /\ rooms'[code].timeline[Len(rooms'[code].timeline)].type = "file_change"
         /\ rooms'[code].lastActivity = clock
         /\ \A d \in (DOMAIN rooms[code].clients) \ {s[2]} :
              isOpen(rooms[code].clients[d].ws)
                => \E i \in 1..Len(sent') :
                     /\ sent'[i].to = rooms[code].clients[d].ws
                     /\ sent'[i].type = "file_changed"
                     /\ sent'[i].list = <<change>>

\* C2: a file_change whose path is locked by a device other than the sender
\* is rejected with an error reply naming the lock, the room is unchanged
\* (recentChanges, timeline, lastActivity) and no file_changed or
\* conflict_warning is sent; a file_change on an unlocked path, or on a path
\* locked by the sender, is recorded and broadcast.
C2_LockedChangeRejected == [][C2_Rejected /\ C2_Recorded]_vars

\* A file_change on a path locked by another device was just rejected.
C2_Witness ==
  \E code \in DOMAIN rooms : \E file \in DOMAIN rooms[code].locks :
    /\ Len(sent) = 1
    /\ sent[1].type = "error"
    /\ sent[1].err = "file_locked_by"
    /\ sent[1].name = rooms[code].locks[file].lockedBy
    /\ conns[sent[1].to].deviceId # rooms[code].locks[file].deviceId
    /\ rooms[code].recentChanges = <<>>

\* Room r holds nothing of device d: no lock and no pending typing timer.
HoldsNothingOf(r, d) ==
  /\ \A file \in DOMAIN r.locks : r.locks[file].deviceId # d
  /\ d \notin DOMAIN r.typingTimers

\* removeMember(D) returns a room that holds nothing of D.
C3_RemoveReleases ==
  \A code \in DOMAIN rooms : \A d \in DOMAIN rooms[code].clients :
    HoldsNothingOf(removeMember(rooms[code], d, clock).room, d)

\* C3: when a member leaves the member map of a room (leave_room, disconnect
\* or heartbeat sweep), the room right after holds no lock whose deviceId is
\* that member and no typing timer for it.
C3_RemovalClears ==
  /\ []C3_RemoveReleases
  /\ [][\A code \in (DOMAIN rooms) \cap (DOMAIN rooms') :
          \A d \in (DOMAIN rooms[code].clients) \ (DOMAIN rooms'[code].clients) :
            HoldsNothingOf(rooms'[code], d)]_vars

\* A member who had locked a file was just removed and the room lives on
\* without the lock.
C3_Witness ==
  \E code \in DOMAIN rooms :
    LET r == rooms[code]
        n == Len(r.timeline)
    IN /\ Len(sent) >= 1
       /\ sent[1].type = "member_left"
       /\ sent[1].dev \notin DOMAIN r.clients
       /\ n >= 2
       /\ r.timeline[n - 1].type = "lock"
       /\ r.timeline[n - 1].actor = sent[1].name
       /\ r.timeline[n].type = "leave"
       /\ r.timeline[n].actor = sent[1].name
       /\ HoldsNothingOf(r, sent[1].dev)

\* C4: whenever a lock is acquired in a room, its deviceId is a member of the
\* room at that instant (lock_file from a device that never joined is
\* refused).
C4_HolderIsMember ==
  [][\A code \in (DOMAIN rooms) \cap (DOMAIN rooms') :
       \A file \in DOMAIN rooms'[code].locks :
         (file \notin DOMAIN rooms[code].locks
            \/ rooms[code].locks[file] # rooms'[code].locks[file])
           => rooms'[code].locks[file].deviceId \in DOMAIN rooms[code].clients]_vars

\* Room code is password-protected and password is not its password.
WrongPasswordFor(code, password) ==
  /\ code \in DOMAIN rooms
  /\ rooms[code].password # NullS
  /\ rooms[code].password # password

\* A join_room with a wrong or missing password changes nothing: member set,
\* timeline and the session's room binding stay, and the only frame is an
\* error to the sender, of kind errOf(name).
C5_Refused(errOf(_)) ==
  \A s \in env.senders, name \in Names, code \in Codes,
     password \in Passwords, branch \in Branches :
    (WrongPasswordFor(code, password)
       /\ handleJoinRoom(s[1], s[2], name, code, password, branch))
      => /\ rooms' = rooms
         /\ conns'[s[1]].roomCode = conns[s[1]].roomCode
         /\ OnlyReply(sent', s[1], "error")
         /\ sent'[1].err = errOf(name)

\* The join with the matching password seats the device, when ok(code, d).
C5_Admitted(ok(_, _)) ==
  \A s \in env.senders, name \in Names, code \in Codes,
     password \in Passwords, branch \in Branches :
    (/\ code \in DOMAIN rooms
     /\ rooms[code].password = password
     /\ validName(name)
     /\ ok(code, s[2])
     /\ handleJoinRoom(s[1], s[2], name, code, password, branch))
      => /\ s[2] \in DOMAIN rooms'[code].clients
         /\ conns'[s[1]].roomCode = code
         /\ Len(sent') >= 1
         /\ sent'[1].type = "room_joined"
         /\ sent'[1].to = s[1]

AlwaysWrongPassword(name) == "wrong_password"

\* Name validation comes before the password check.
NameThenPassword(name) == IF validName(name) THEN "wrong_password" ELSE "name_length"

AnySeat(code, d) == TRUE

FreeSeat(code, d) ==
  /\ d \notin DOMAIN rooms[code].clients
  /\ Cardinality(DOMAIN rooms[code].clients) < MAX_ROOM_MEMBERS

\* C5 as stated: a join_room to a password-protected room with a wrong or
\* missing password is answered with the "Wrong password" error and has no
\* side effects; the same join with the matching password succeeds.
C5_AsStated ==
  [][C5_Refused(AlwaysWrongPassword) /\ C5_Admitted(AnySeat)]_vars

\* C5 (amended): such a join has no side effects and is answered with an
\* error frame, which is the "Wrong password" error when the name is valid
\* (1 to 50 characters) and the name error otherwise; the join with the
\* matching password succeeds when the device is not already seated and the
\* room is not full.
C5_WrongPasswordRefused ==
  [][C5_Refused(NameThenPassword) /\ C5_Admitted(FreeSeat)]_vars

\* A join with a wrong or missing password was just refused.
C5_Witness ==
  \E code \in DOMAIN rooms :
    /\ rooms[code].password # NullS
    /\ Len(sent) = 1
    /\ sent[1].type = "error"
    /\ sent[1].err = "wrong_password"
    /\ conns[sent[1].to].roomCode # code
    /\ conns[sent[1].to].deviceId \notin DOMAIN rooms[code].clients

\* C6: a room saved with hasPassword = true and re-created from the
\* persistence file refuses a join_room that does not carry the original
\* password.  (A re-created room that nobody has joined yet is the one whose
\* timeline counter is 0.)
C6_PasswordSurvivesRestart ==
  [][\A s \in env.senders, name \in Names, code \in Codes,
        password \in Passwords, branch \in Branches :
       (/\ code \in DOMAIN rooms
        /\ rooms[code].timelineCounter = 0
        /\ \E i \in 1..Len(disk) :
             /\ disk[i].code = code
             /\ disk[i].hasPassword
             /\ disk[i].passwordHash # hashPassword(password)
        /\ handleJoinRoom(s[1], s[2], name, code, password, branch))
         => /\ rooms' = rooms
            /\ OnlyReply(sent', s[1], "error")]_vars

\* Each device id has one seat: the member map is keyed by device id, every
\* seat records its own key, and the insertion order lists each key once.
C7_OneSeatPerDevice ==
  \A code \in DOMAIN rooms :
    LET r == rooms[code]
    IN /\ \A d \in DOMAIN r.clients : r.clients[d].info.deviceId = d
       /\ {r.clientOrder[i] : i \in 1..Len(r.clientOrder)} = DOMAIN r.clients
       /\ Len(r.clientOrder) = Cardinality(DOMAIN r.clients)

\* C7: a room never has two seats with the same device id, and a join_room
\* whose device id is already seated is rejected with an error, the member
\* set (and the whole registry) unchanged.
C7_DuplicateJoinRejected ==
  /\ []C7_OneSeatPerDevice
  /\ [][\A s \in env.senders, name \in Names, code \in Codes,
           password \in Passwords, branch \in Branches :
          (/\ code \in DOMAIN rooms
           /\ s[2] \in DOMAIN rooms[code].clients
           /\ handleJoinRoom(s[1], s[2], name, code, password, branch))
            => /\ rooms' = rooms
               /\ OnlyReply(sent', s[1], "error")]_vars

\* A second join of a seated device was just rejected.
C7_Witness ==
  \E code \in DOMAIN rooms :
    /\ Len(sent) = 1
    /\ sent[1].type = "error"
    /\ sent[1].err = "already_in_room"
    /\ conns[sent[1].to].deviceId \in DOMAIN rooms[code].clients

\* C8 (state part): no room has more than MAX_ROOM_MEMBERS members or more
\* than MAX_LOCKS_PER_ROOM locks.
C8_WithinLimits ==
  \A code \in DOMAIN rooms :
    /\ Cardinality(DOMAIN rooms[code].clients) <= MAX_ROOM_MEMBERS
    /\ Cardinality(DOMAIN rooms[code].locks) <= MAX_LOCKS_PER_ROOM

\* C8: a room never has more than 20 members or more than 50 locks; the
\* join_room that would seat member 21 and the lock_file that would create
\* lock 51 are each rejected with an error and leave the room unchanged.
C8_LimitsEnforced ==
  /\ []C8_WithinLimits
  /\ [][/\ \A s \in env.senders, name \in env.names, code \in env.codes,
              password \in env.passwords, branch \in env.branches :
             (/\ code \in DOMAIN rooms
              /\ Cardinality(DOMAIN rooms[code].clients) = MAX_ROOM_MEMBERS
              /\ handleJoinRoom(s[1], s[2], name, code, password, branch))
               => /\ rooms' = rooms
                  /\ OnlyReply(sent', s[1], "error")
        /\ \A s \in env.senders, name \in env.names, code \in env.codes,
              file \in env.paths :
             (/\ code \in DOMAIN rooms
              /\ Cardinality(DOMAIN rooms[code].locks) = MAX_LOCKS_PER_ROOM
              /\ file \notin DOMAIN rooms[code].locks
              /\ handleLockFile(s[1], s[2], name, code, file))
               => /\ rooms' = rooms
                  /\ OnlyReply(sent', s[1], "lock_error")]_vars

\* A room holding 20 members and 50 locks just refused a 51st lock.
C8_Witness ==
  \E code \in DOMAIN rooms :
    /\ Cardinality(DOMAIN rooms[code].clients) = MAX_ROOM_MEMBERS
    /\ Cardinality(DOMAIN rooms[code].locks) = MAX_LOCKS_PER_ROOM
    /\ Len(sent) = 1
    /\ sent[1].type = "lock_error"
    /\ sent[1].err = "too_many_locks"
    /\ sent[1].file \notin DOMAIN rooms[code].locks

\* C9 (state part): recentChanges is the last min(N, 100) of the N changes
\* the room has accepted, in acceptance order.
C9_LastHundred ==
  \A code \in DOMAIN rooms :
    LET r == rooms[code]
    IN /\ r.recentChanges = SliceLast(r.allChanges, MAX_RECENT_CHANGES)
       /\ Len(r.recentChanges) = IF Len(r.allChanges) <= MAX_RECENT_CHANGES
                                   THEN Len(r.allChanges) ELSE MAX_RECENT_CHANGES

\* C9: after N accepted file changes recentChanges holds exactly the
\* min(N, 100) most recent, in acceptance order: every accepted file_change
\* appends its change and drops the oldest beyond 100, and no other step
\* touches the list.
C9_RecentChangesRing ==
  /\ []C9_LastHundred
  /\ [][\A code \in (DOMAIN rooms) \cap (DOMAIN rooms') :
          LET old == rooms[code].recentChanges
              new == rooms'[code].recentChanges
          IN /\ \A s \in env.senders : \A change \in Changes(s[2]) :
                  (~HeldByOther(code, change.path, s[2])
                     /\ handleFileChange(s[1], s[2], code, change))
                    => /\ new = SliceLast(Append(old, change), MAX_RECENT_CHANGES)
                       /\ rooms'[code].allChanges = Append(rooms[code].allChanges, change)
             /\ new # old
                  => \E s \in env.senders : \E change \in Changes(s[2]) :
                       handleFileChange(s[1], s[2], code, change)]_vars

\* More than 100 changes were accepted and the oldest has been dropped.
C9_Witness ==
  \E code \in DOMAIN rooms :
    LET r == rooms[code]
    IN /\ Len(r.allChanges) > MAX_RECENT_CHANGES
       /\ Len(r.recentChanges) = MAX_RECENT_CHANGES
       /\ r.recentChanges[1] = r.allChanges[Len(r.allChanges) - MAX_RECENT_CHANGES + 1]
       /\ r.recentChanges[1] # r.allChanges[1]

\* C10: timeline ids come from a per-room counter: the i-th event ever
\* appended has id i (ids start at 1, increase by one per append, are never
\* reused), and the retained timeline is the last min(count, 200) events.
C10_TimelineIds ==
  \A code \in DOMAIN rooms :
    LET r == rooms[code]
    IN /\ r.timelineCounter = Len(r.allEvents)
       /\ \A i \in 1..Len(r.allEvents) : r.allEvents[i].id = i
       /\ r.timeline = SliceLast(r.allEvents, MAX_TIMELINE_EVENTS)
       /\ Len(r.timeline) <= MAX_TIMELINE_EVENTS

\* More than 200 events were appended: the oldest retained id is past 1.
C10_Witness ==
  \E code \in DOMAIN rooms :
    LET r == rooms[code]
    IN /\ r.timelineCounter > MAX_TIMELINE_EVENTS
       /\ Len(r.timeline) = MAX_TIMELINE_EVENTS
       /\ r.timeline[1].id = r.timelineCounter - MAX_TIMELINE_EVENTS + 1
       /\ r.timeline[MAX_TIMELINE_EVENTS].id = r.timelineCounter

\* The step takes deviceId out of room code; afterwards the room is in the
\* registry exactly when somebody else is still seated, and no other room
\* leaves the registry.
C11_DeletedIffEmptied(code, deviceId) ==
  /\ (code \in DOMAIN rooms') <=> ((DOMAIN rooms[code].clients) \ {deviceId} # {})
  /\ (code \in DOMAIN rooms')
       => DOMAIN rooms'[code].clients = (DOMAIN rooms[code].clients) \ {deviceId}
  /\ \A other \in (DOMAIN rooms) \ {code} : other \in DOMAIN rooms'

\* C11: once the relay has handled a leave_room or a transport close that
\* removed the last member of a room, the registry no longer has that room
\* code; and these two paths never delete a room that still has a member.
C11_EmptyRoomDeleted ==
  [][/\ \A s \in env.senders, code \in Codes :
          (code \in DOMAIN rooms /\ handleLeaveRoom(s[1], s[2], code))
            => C11_DeletedIffEmptied(code, s[2])
     /\ \A c \in Conns :
          (/\ Truthy(conns[c].roomCode)
           /\ conns[c].roomCode \in DOMAIN rooms
           /\ handleDisconnect(c))
            => C11_DeletedIffEmptied(conns[c].roomCode, conns[c].deviceId)]_vars

\* The last member just left over leave_room and the room is gone.
C11_Witness ==
  /\ Len(sent) = 1
  /\ sent[1].type = "room_left"
  /\ sent[1].code \notin DOMAIN rooms
  /\ conns[sent[1].to].roomCode = NullS
  /\ disk = <<>>
  /\ budget.events = 0

\* The members of r whose lastSeen is more than HEARTBEAT_TIMEOUT_MS old.
Stale(r) ==
  {d \in DOMAIN r.clients : clock - r.clients[d].info.lastSeen > HEARTBEAT_TIMEOUT_MS}

\* C12: a heartbeat sweep removes exactly the members whose lastSeen is more
\* than HEARTBEAT_TIMEOUT_MS old, sends a member_left for each of them to
\* every remaining member, and prunes the room if nobody remains; a member
\* whose lastSeen is within the timeout is never removed by the sweep.
C12_SweepReapsStale ==
  [][heartbeatSweep =>
       \A code \in DOMAIN rooms :
         LET room == rooms[code]
             fresh == (DOMAIN room.clients) \ Stale(room)
         IN /\ (code \in DOMAIN rooms') <=> (fresh # {})
            /\ (code \in DOMAIN rooms') => DOMAIN rooms'[code].clients = fresh
            /\ \A d \in Stale(room), m \in fresh :
                 isOpen(room.clients[m].ws) =>
                   \E i \in 1..Len(sent') :
                     /\ sent'[i].type = "member_left"
                     /\ sent'[i].code = code
                     /\ sent'[i].dev = d
                     /\ sent'[i].to = room.clients[m].ws
            /\ \A i \in 1..Len(sent') :
                 sent'[i].code = code
                   => sent'[i].type = "member_left" /\ sent'[i].dev \in Stale(room)]_vars

\* A sweep just removed one silent member and told the one that had sent a
\* heartbeat after the timeout.
C12_Witness ==
  /\ clock = HEARTBEAT_TIMEOUT_MS + 1
  /\ Len(sent) = 1
  /\ sent[1].type = "member_left"
  /\ TeamCode \in DOMAIN rooms
  /\ Cardinality(DOMAIN rooms[TeamCode].clients) = 1
  /\ sent[1].dev \notin DOMAIN rooms[TeamCode].clients
  /\ \E d \in DOMAIN rooms[TeamCode].clients :
       /\ rooms[TeamCode].clients[d].ws = sent[1].to
       /\ rooms[TeamCode].clients[d].info.lastSeen = clock

\* The step seated deviceId in room code.
Joined(code, deviceId) ==
  /\ hasRoom(rooms, code) /\ ~hasMember(rooms[code], deviceId)
  /\ hasRoom(rooms', code) /\ hasMember(rooms'[code], deviceId)

\* C13: on a successful join_room the first frame is the joiner's room_joined;
\* member_joined follows it, reaches every other member and is never sent to
\* the joiner; every branch_warning of the join comes after every
\* member_joined and, when the branches diverge, reaches every member.
C13_JoinOrder ==
  [][\A s \in env.senders, name \in env.names, code \in env.codes,
        password \in env.passwords, branch \in env.branches :
       (handleJoinRoom(s[1], s[2], name, code, password, branch) /\ Joined(code, s[2]))
         => LET room == rooms'[code]
                others == (DOMAIN room.clients) \ {s[2]}
                at(type) == {i \in 1..Len(sent') : sent'[i].type = type}
            IN /\ Len(sent') >= 1
               /\ sent'[1].type = "room_joined" /\ sent'[1].to = s[1]
               /\ at("room_joined") = {1}
               /\ \A d \in others :
                    isOpen(room.clients[d].ws) =>
                      \E i \in at("member_joined") :
                        sent'[i].to = room.clients[d].ws /\ sent'[i].dev = s[2]
               /\ \A i \in at("member_joined") :
                    /\ i > 1
                    /\ sent'[i].to # s[1]
                    /\ \E d \in others : sent'[i].to = room.clients[d].ws
               /\ \A i \in at("branch_warning"), j \in at("member_joined") : i > j
               /\ checkBranchDivergence(room).diverged
                    => \A d \in DOMAIN room.clients :
                         \E i \in at("branch_warning") : sent'[i].to = room.clients[d].ws
               /\ ~checkBranchDivergence(room).diverged => at("branch_warning") = {}]_vars

\* A join that put the team on two branches: room_joined to the joiner,
\* member_joined to the other member, then branch_warning to both.
C13_Witness ==
  /\ Len(sent) = 4
  /\ sent[1].type = "room_joined"
  /\ sent[2].type = "member_joined" /\ sent[2].to # sent[1].to
  /\ sent[3].type = "branch_warning"
  /\ sent[4].type = "branch_warning" /\ sent[4].to = sent[1].to

\* The indexes of the frames of the given type among the frames of a step.
FramesOf(frames, type) == {i \in 1..Len(frames) : frames[i].type = type}

\* Somebody other than deviceId has declared file in room r.
DeclaredByOther(r, deviceId, file) ==
  \E d \in (DOMAIN r.clients) \ {deviceId} : SeqContains(r.clients[d].info.workingOn, file)

\* C14: an accepted file_change sends file_changed to every member except the
\* sender and to nobody else; a conflict_warning is sent exactly when another
\* member's workingOn contains the changed path, it then reaches every member,
\* the sender included, and every conflict_warning comes after every
\* file_changed.
C14_ChangeThenConflict ==
  [][\A s \in env.senders, code \in env.codes :
       \A change \in Changes(s[2]) :
         (/\ hasRoom(rooms, code)
          /\ ~HeldByOther(code, change.path, s[2])
          /\ handleFileChange(s[1], s[2], code, change))
           => LET room == rooms'[code]
                  others == (DOMAIN room.clients) \ {s[2]}
                  changed == FramesOf(sent', "file_changed")
                  warned == FramesOf(sent', "conflict_warning")
              IN /\ changed \cup warned = 1..Len(sent')
                 /\ \A d \in others :
                      isOpen(room.clients[d].ws) =>
                        \E i \in changed :
                          sent'[i].to = room.clients[d].ws /\ sent'[i].file = change.path
                 /\ \A i \in changed :
                      /\ sent'[i].to # s[1]
                      /\ \E d \in others : sent'[i].to = room.clients[d].ws
                 /\ \A i \in warned, j \in changed : i > j
                 /\ DeclaredByOther(rooms[code], s[2], change.path)
                      => \A d \in DOMAIN room.clients :
                           isOpen(room.clients[d].ws) =>
                             \E i \in warned :
                               /\ sent'[i].to = room.clients[d].ws
                               /\ sent'[i].file = change.path
                 /\ ~DeclaredByOther(rooms[code], s[2], change.path) => warned = {}]_vars

\* Alice changed the file Zeus works on: file_changed to Zeus, then the
\* conflict_warning naming both to Zeus and to Alice.
C14_Witness ==
  /\ Len(sent) = 3
  /\ sent[1].type = "file_changed" /\ sent[1].to = 1 /\ sent[1].dev = 2
  /\ sent[2].type = "conflict_warning" /\ sent[2].to = 1
  /\ sent[3].type = "conflict_warning" /\ sent[3].to = 2
  /\ sent[3].list = <<"Alice", "Zeus">>

\* C15: when member B declares working on a file that another member A has
\* declared and not withdrawn, a conflict_warning for that file whose authors
\* contain both names reaches both A and B (every member); a declaration
\* whose files nobody else has declared produces no conflict_warning.
C15_DeclarationConflict ==
  [][\A s \in env.senders, code \in env.codes, files \in env.fileLists :
       (/\ hasRoom(rooms, code)
        /\ hasMember(rooms[code], s[2])
        /\ handleDeclareWorking(s[1], s[2], NameOf(s[2]), code, files))
         => LET room == rooms[code]
                warned == FramesOf(sent', "conflict_warning")
            IN /\ \A k \in 1..Len(files) :
                    \A a \in (DOMAIN room.clients) \ {s[2]} :
                      SeqContains(room.clients[a].info.workingOn, files[k])
                        => \A d \in {a, s[2]} :
                             isOpen(room.clients[d].ws) =>
                               \E i \in warned :
                                 /\ sent'[i].to = room.clients[d].ws
                                 /\ sent'[i].file = files[k]
                                 /\ SeqContains(sent'[i].list, room.clients[a].info.name)
                                 /\ SeqContains(sent'[i].list, room.clients[s[2]].info.name)
               /\ \A i \in warned :
                    /\ SeqContains(files, sent'[i].file)
                    /\ DeclaredByOther(room, s[2], sent'[i].file)]_vars

\* Alice declared the file Zeus had declared: after member_updated to Zeus,
\* the conflict_warning naming both went to Zeus and to Alice.
C15_Witness ==
  /\ Len(sent) = 3
  /\ sent[1].type = "member_updated" /\ sent[1].to = 1 /\ sent[1].dev = 2
  /\ sent[2].type = "conflict_warning" /\ sent[2].to = 1 /\ sent[2].file = 1
  /\ sent[3].type = "conflict_warning" /\ sent[3].to = 2 /\ sent[3].file = 1
  /\ sent[3].list = <<"Alice", "Zeus">>
  /\ rooms[TeamCode].clients[1].info.workingOn = <<1>>
  /\ rooms[TeamCode].clients[2].info.workingOn = <<1>>

\* A declaration of a file nobody else declared was answered without a
\* conflict_warning.
C15_NoConflictSeen ==
  /\ Len(sent) = 1
  /\ sent[1].type = "member_updated" /\ sent[1].dev = 2
  /\ rooms[TeamCode].clients[2].info.workingOn = <<2>>

\* Room.lockFile and Room.unlockFile applied to a room of the relay, at the
\* current time and later.
C16_RoomIdempotence ==
  \A code \in DOMAIN rooms :
    \A deviceId \in Conns, name \in Names \ {""}, file \in Paths, t \in {clock, clock + 1} :
      LET room == rooms[code]
          once == lockFile(room, deviceId, name, file, t)
          twice == lockFile(once.room, deviceId, name, file, t + 1)
      IN /\ file \notin DOMAIN room.locks
              => LET res == unlockFile(room, deviceId, name, file, t)
                 IN res.success /\ res.room = room
         /\ (file \in DOMAIN room.locks /\ room.locks[file].deviceId = deviceId)
              => once.success /\ once.room = room
         /\ once.success => twice.success /\ twice.room = once.room

\* C16: unlockFile on a path that is not locked succeeds and changes nothing
\* in the room; lockFile by the current holder succeeds and changes nothing,
\* so lock;lock by one device leaves the state of a single lock.  The
\* lock_file and unlock_file handlers then leave the whole registry as it was.
C16_LockIdempotent ==
  /\ []C16_RoomIdempotence
  /\ [][\A s \in env.senders, name \in env.names, code \in env.codes, file \in env.paths :
          /\ (/\ hasRoom(rooms, code)
              /\ file \in DOMAIN rooms[code].locks
              /\ rooms[code].locks[file].deviceId = s[2]
              /\ handleLockFile(s[1], s[2], name, code, file))
               => rooms' = rooms /\ FramesOf(sent', "file_locked") = 1..Len(sent')
          /\ (/\ hasRoom(rooms, code)
              /\ file \notin DOMAIN rooms[code].locks
              /\ handleUnlockFile(s[1], s[2], NameOf(s[2]), code, file))
               => rooms' = rooms /\ FramesOf(sent', "file_unlocked") = 1..Len(sent')]_vars

\* The holder has just locked the file a second time: file_locked went out
\* again and the room still has one lock record and one lock event.
C16_Witness ==
  /\ budget.quiet = 0
  /\ Len(sent) = 2
  /\ sent[1].type = "file_locked"
  /\ TeamCode \in DOMAIN rooms
  /\ sent[1].file \in DOMAIN rooms[TeamCode].locks
  /\ rooms[TeamCode].locks[sent[1].file].deviceId = sent[1].dev
  /\ Cardinality({i \in 1..Len(rooms[TeamCode].allEvents) :
                    rooms[TeamCode].allEvents[i].type = "lock"}) = 1
  /\ rooms[TeamCode].timelineCounter = 3

\* An unlock_file for a file that was not locked has just been answered with
\* file_unlocked, the room untouched.
C16_UnlockSeen ==
  /\ budget.quiet = 0
  /\ budget.events = MaxEvents
  /\ Len(sent) = 2
  /\ sent[1].type = "file_unlocked"
  /\ rooms = [code \in {TeamCode} |-> TeamRoom]

\* The room is still registered after the step and its lastActivity is the
\* time of the step.
Touched(code) == hasRoom(rooms', code) => rooms'[code].lastActivity = clock

\* What C17 says of each kind of step; withChat tells whether chat_message
\* counts among the events that advance lastActivity.
C17_Activity(withChat) ==
  \A s \in env.senders, code \in env.codes :
    hasRoom(rooms, code) =>
      LET room == rooms[code]
          member == hasMember(room, s[2])
      IN /\ \A name \in env.names, password \in env.passwords, branch \in env.branches :
              (handleJoinRoom(s[1], s[2], name, code, password, branch) /\ Joined(code, s[2]))
                => Touched(code)
         /\ (member /\ handleLeaveRoom(s[1], s[2], code)) => Touched(code)
         /\ \A status \in Statuses, branch \in env.branches :
              (member /\ handleHeartbeat(s[1], s[2], code, status, branch)) => Touched(code)
         /\ \A change \in Changes(s[2]) :
              (~HeldByOther(code, change.path, s[2])
                 /\ handleFileChange(s[1], s[2], code, change)) => Touched(code)
         /\ \A content \in env.contents :
              (/\ withChat
               /\ Truthy(content) /\ Len(content) <= MAX_CHAT_LEN
               /\ handleChatMessage(s[1], s[2], NameOf(s[2]), code, content))
                => Touched(code)
         /\ \A name \in env.names, file \in env.paths :
              (file \notin DOMAIN room.locks /\ handleLockFile(s[1], s[2], name, code, file))
                => Touched(code)
         /\ \A file \in env.paths :
              (/\ file \in DOMAIN room.locks
               /\ room.locks[file].deviceId = s[2]
               /\ handleUnlockFile(s[1], s[2], NameOf(s[2]), code, file))
                => Touched(code)
         /\ (\/ handleRequestStatus(s[1], s[2], code)
             \/ handleSyncRequest(s[1], s[2], code)
             \/ \E limit \in Limits : handleGetTimeline(s[1], s[2], code, limit)
             \/ handleListRooms(s[1], s[2]))
              => rooms' = rooms

\* C17: a room's lastActivity advances to the time of the event on member
\* join, member removal, heartbeat, file_change, chat_message, lock and
\* unlock, and request_status, sync_request, get_timeline and list_rooms
\* leave it (and the whole room) unchanged.
C17_ActivityAdvances == [][C17_Activity(TRUE)]_vars

\* The same without chat_message among the events.
C17_ActivityButChat == [][C17_Activity(FALSE)]_vars

\* A chat message was delivered an hour after the last activity of the room.
C17_ChatSeen ==
  /\ Len(sent) = 1
  /\ sent[1].type = "chat_received"
  /\ hasRoom(rooms, TeamCode)
  /\ rooms[TeamCode].lastActivity < clock

\* The rooms that are public and have a member.
PublicAndOccupied(rs) == {c \in DOMAIN rs : rs[c].isPublic /\ DOMAIN rs[c].clients # {}}

\* C18: the reply to list_rooms is one room_list frame to the sender that
\* lists, once each, exactly the rooms that are public and non-empty when the
\* frame is handled; a set_room_visibility{isPublic:false} for a room makes
\* it private, so that the lists sent from then on leave it out.
C18_ListIsPublicRooms ==
  [][\A s \in env.senders :
       /\ handleListRooms(s[1], s[2])
            => /\ Len(sent') = 1
               /\ sent'[1].type = "room_list" /\ sent'[1].to = s[1]
               /\ {sent'[1].list[i].code : i \in 1..Len(sent'[1].list)}
                    = PublicAndOccupied(rooms)
               /\ Len(sent'[1].list) = Cardinality(PublicAndOccupied(rooms))
       /\ \A code \in env.codes :
            (hasRoom(rooms, code) /\ handleSetRoomVisibility(s[1], s[2], code, FALSE))
              => /\ ~rooms'[code].isPublic
                 /\ code \notin PublicAndOccupied(rooms')
                 /\ rooms' = [rooms EXCEPT ![code].isPublic = FALSE]]_vars

\* A room_list sent after the team's public room was made private: the room
\* is still occupied and the list is empty.
C18_Witness ==
  /\ Len(sent) = 1
  /\ sent[1].type = "room_list"
  /\ sent[1].list = <<>>
  /\ hasRoom(rooms, TeamCode)
  /\ ~rooms[TeamCode].isPublic
  /\ rooms[TeamCode].createdAt = 0
  /\ DOMAIN rooms[TeamCode].clients # {}
  /\ budget.quiet = 0

\* A room_list that shows the public room while its creator is seated.
C18_Listed ==
  /\ Len(sent) = 1
  /\ sent[1].type = "room_list"
  /\ Len(sent[1].list) = 1
  /\ sent[1].list[1].code = TeamCode
  /\ sent[1].list[1].createdBy = "Zeus"
  /\ 1 \in DOMAIN rooms[TeamCode].clients

\* The step answered the sender with one error frame carrying err, sent
\* nothing else and left the registry as it was.
RefusedWith(ws, err) ==
  /\ OnlyReply(sent', ws, "error")
  /\ sent'[1].err = err
  /\ rooms' = rooms

SurvivedBy(ws) ==
  /\ \A k \in Conns : conns[k].open => conns'[k].open
  /\ rooms' = rooms
  /\ sent' = <<>> \/ OnlyReply(sent', ws, "error")

\* What C20 says of a payload that is no frame of the protocol.
C20_RawFrameSurvived ==
  \A s \in env.senders, raw \in RawFrames :
    handleRawFrame(s[1], s[2], raw)
      => /\ SurvivedBy(s[1])
         /\ (~raw.json \/ raw.kind # "object" \/ raw.typeOf # "string")
              => OnlyReply(sent', s[1], "error") /\ sent'[1].err = "Invalid message format"

\* What C20 says of a frame of a known type that lacks its payload field.
C20_PayloadSurvived ==
  \A s \in env.senders, type \in PayloadTypes, code \in env.codes :
    handleWithoutPayload(s[1], s[2], type, code) => SurvivedBy(s[1])

\* C20: for every inbound frame that is not valid JSON, not a JSON object,
\* without a string type, of an unknown type, or of a known type without its
\* payload field, the relay replies with an error frame or ignores it, every
\* connection stays open and the registry is kept, so that later frames are
\* handled; an undecodable frame is answered with 'Invalid message format'.
C20_BadFrameSurvived == [][C20_RawFrameSurvived /\ C20_PayloadSurvived]_vars

\* The part about payloads that do not decode and frames of unknown type.
C20_RawFramesOnly == [][C20_RawFrameSurvived]_vars

\* The relay has just received a frame without its payload field for the
\* team's room: the room and every transport are gone.
C20_Crashed ==
  /\ rooms = EmptyMap
  /\ \A k \in Conns : ~conns[k].open
  /\ loading
  /\ budget = [LobbyBudget EXCEPT !.quiet = @ - 1]

\* min(1000 * 2^k, 30 000), the delay before the k-th consecutive attempt.
C21_Delay(k) == IF 1000 * 2^k < 30000 THEN 1000 * 2^k ELSE 30000

\* C21: after a connection loss the k-th consecutive reconnect attempt
\* (k = 0, 1, 2, ...) is scheduled after min(1000 * 2^k, 30 000) ms; at most
\* 10 consecutive attempts are made without a successful open, after which the
\* close of the socket schedules nothing more; a successful open resets the
\* attempt counter to 0.
C21_ReconnectSchedule ==
  /\ [](/\ agent.reconnectAttempts \in 0..10
        /\ Len(agent.delays) = agent.reconnectAttempts
        /\ \A i \in 1..Len(agent.delays) : agent.delays[i] = C21_Delay(i - 1))
  /\ [][/\ (socketClose /\ agent.shouldReconnect /\ agent.reconnectAttempts < 10)
             => /\ agent'.reconnectTimer = C21_Delay(agent.reconnectAttempts)
                /\ agent'.reconnectAttempts = agent.reconnectAttempts + 1
        /\ (socketClose /\ agent.shouldReconnect /\ agent.reconnectAttempts >= 10)
             => /\ agent'.reconnectTimer = NoTimer
                /\ agent'.sock = "closed"
                /\ agent'.reconnectAttempts = agent.reconnectAttempts
        /\ (agent'.sock = "connecting" /\ agent.sock \notin {"none", "connecting"})
             => /\ agent.reconnectTimer # NoTimer
                /\ agent.reconnectAttempts \in 1..10
        /\ socketOpen => agent'.reconnectAttempts = 0]_vars

\* Ten attempts in a row failed after a connection was lost, each scheduled
\* after its delay, and reconnecting was abandoned.
C21_Witness ==
  /\ agent.delays = <<1000, 2000, 4000, 8000, 16000, 30000, 30000, 30000, 30000, 30000>>
  /\ agent.reconnectAttempts = 10
  /\ agent.sock = "closed"
  /\ agent.shouldReconnect
  /\ agent.reconnectTimer = NoTimer

\* The file_change frames that carry the changes of queue to the room code.
C22_Flushed(queue, code) ==
  [i \in 1..Len(queue) |-> [ClientFrame("file_change", code) EXCEPT !.change = queue[i]]]

\* C22: when a connection opens while currentRoom is set, the first frame on
\* it is join_room for that room with the remembered password and branch
\* (nothing is written on a socket that is not open); when room_joined then
\* reaches the waiting rejoin listener the queued changes leave as one
\* file_change frame each, in queue order, and the queue is empty; when an
\* error reaches it instead, the queue is emptied and nothing is sent.
C22_RejoinThenFlush ==
  [][/\ (agent.sock = "connecting" /\ agent'.sock = "open" /\ Truthy(agent.currentRoom))
          => /\ agent'.out = <<[ClientFrame("join_room", agent.currentRoom) EXCEPT
                                  !.password = agent.currentPassword,
                                  !.branch = agent.currentBranch]>>
             /\ agent'.fileChangeQueue = agent.fileChangeQueue
     /\ (agent.sock # "open" /\ agent'.sock # "open") => agent'.out = <<>>
     /\ \A msg \in [type : {"room_joined", "error"}, code : Codes \cup {NullS}] :
          ( /\ agent.sock = "open"
            /\ agent.owed # <<>>
            /\ agent.pendingListeners # <<>>
            /\ msg \in Answers(Head(agent.owed))
            /\ agent' = onMessage([Quiet(agent) EXCEPT !.owed = Tail(@)], msg) )
          => /\ agent'.fileChangeQueue = <<>>
             /\ agent'.out = IF msg.type = "room_joined"
                               THEN C22_Flushed(agent.fileChangeQueue, msg.code)
                               ELSE <<>>]_vars

\* The rejoin was answered with room_joined and three queued changes have
\* just been sent in the order they were queued.
C22_Witness ==
  /\ agent.sock = "open"
  /\ agent.currentRoom = "HIVE-AAAAAA"
  /\ agent.out = C22_Flushed(<<1, 2, 3>>, "HIVE-AAAAAA")
  /\ agent.fileChangeQueue = <<>>
  /\ agent.pendingListeners = <<>>

\* The last n elements of seq (all of them when it has fewer).
C23_Last(seq, n) ==
  LET m == IF Len(seq) < n THEN Len(seq) ELSE n
  IN [i \in 1..m |-> seq[Len(seq) - m + i]]

\* C23: the offline queue never holds more than 50 changes and always holds
\* the last min(N, 50) of the N changes reported offline, in report order; a
\* change reported in a room while disconnected is appended (the oldest one
\* leaves a full queue) and not sent; a change reported in no room is
\* neither queued nor sent.
C23_QueueIsRing ==
  /\ [](/\ Len(agent.fileChangeQueue) <= 50
        /\ agent.fileChangeQueue = C23_Last(agent.reported, 50))
  /\ [][\A change \in env.changes :
          (change = Len(agent.reported) + 1 /\ agent' = reportFileChange(Quiet(agent), change))
          => /\ (Truthy(agent.currentRoom) /\ ~connected(agent))
                  => /\ agent'.fileChangeQueue =
                          C23_Last(Append(agent.fileChangeQueue, change), 50)
                     /\ agent'.reported = Append(agent.reported, change)
                     /\ agent'.out = <<>>
             /\ ~Truthy(agent.currentRoom)
                  => /\ agent'.fileChangeQueue = agent.fileChangeQueue
                     /\ agent'.out = <<>>]_vars

\* 52 changes were reported while the agent was in a room without a
\* connection: the queue holds changes 3..52.
C23_Witness ==
  /\ Truthy(agent.currentRoom)
  /\ ~connected(agent)
  /\ Len(agent.reported) = 52
  /\ agent.fileChangeQueue = [i \in 1..50 |-> i + 2]

\* What disconnect() does in its own step: leave_room is the only frame, sent
\* when the agent was in a room on an open connection; the transport is
\* released and closing; timers, room, listeners and queue are cleared.
C24_DisconnectStep ==
  (agent' = disconnect(Quiet(agent)))
  => /\ agent'.out = IF Truthy(agent.currentRoom) /\ connected(agent)
                       THEN <<ClientFrame("leave_room", agent.currentRoom)>>
                       ELSE <<>>
     /\ ~agent'.ws
     /\ agent'.sock \notin {"connecting", "open"}
     /\ ~agent'.shouldReconnect
     /\ agent'.reconnectTimer = NoTimer
     /\ ~agent'.heartbeatTimer

\* After disconnect() no connection is attempted or open, no timer is armed
\* and no frame is written.
C24_NoActivity ==
  /\ [](agent.down => /\ agent.sock \notin {"connecting", "open"}
                      /\ agent.reconnectTimer = NoTimer
                      /\ ~agent.heartbeatTimer
                      /\ ~agent.shouldReconnect
                      /\ agent.pendingListeners = <<>>)
  /\ [][agent.down => agent'.out = <<>>]_vars

\* C24 (the part the code keeps): disconnect() sends leave_room first if the
\* agent was in a room, closes the transport, and from then on no reconnect
\* attempt is started, no heartbeat or other frame is sent and no listener is
\* pending.
C24_DisconnectStops == C24_NoActivity /\ [][C24_DisconnectStep]_vars

\* C24: after disconnect() the agent is quiescent: leave_room is sent first
\* if it was in a room, the transport is closed, and from then on no
\* reconnect attempt is started, no heartbeat is sent, and currentRoom, the
\* pending listeners and the file-change queue are empty.
C24_QuiescentAfterDisconnect ==
  /\ C24_NoActivity
  /\ [][C24_DisconnectStep]_vars
  /\ [](agent.down => /\ agent.currentRoom = NullS
                      /\ agent.fileChangeQueue = <<>>)

\* disconnect() was called on an open connection while the agent was in a
\* room: leave_room has just been written and the socket is closing.
C24_Witness ==
  /\ agent.down
  /\ agent.sock = "closing"
  /\ agent.out = <<ClientFrame("leave_room", "HIVE-AAAAAA")>>
  /\ agent.currentRoom = NullS

\* The armed timers of a path.
C25_Pending(w, path) == {t \in w.timers : t.path = path}

\* C25: at any time at most one timer is pending per path, and every burst
\* on a path has been handled once, has its timer pending or was cleared by
\* stop(); an event for a
\* path replaces the pending timer of that path by a fresh one of the full
\* delay and leaves the timers of the other paths alone; the timer that
\* fires is the one armed by the last event on its path, a full delay after
\* it, and starts one handleChange of that event's type without touching the
\* timers of the other paths.
C25_PerPathDebounce ==
  /\ [](\A path \in WatchPaths :
          /\ Cardinality(C25_Pending(watch, path)) <= 1
          /\ watch.handled[path] + Cardinality(C25_Pending(watch, path))
               + watch.cleared[path] = watch.bursts[path])
  /\ [][/\ (watch'.events = watch.events + 1)
             => \E path \in WatchPaths, type \in EventTypes :
                  /\ C25_Pending(watch', path) =
                       {[handle |-> watch'.events, path |-> path, type |-> type,
                         left |-> DEFAULT_DEBOUNCE_MS]}
                  /\ \A other \in WatchPaths \ {path} :
                       C25_Pending(watch', other) = C25_Pending(watch, other)
        /\ (watch'.fired = watch.fired + 1)
             => \E t \in watch.timers :
                  /\ t.left = 0
                  /\ t.handle = watch.debouncedHandlers[t.path]
                  /\ watch'.timers = watch.timers \ {t}
                  /\ watch'.handled = [watch.handled EXCEPT ![t.path] = @ + 1]
                  /\ LET run == [path |-> t.path, type |-> t.type, fired |-> watch'.fired]
                     IN \/ watch'.runs = watch.runs \cup {run} /\ run \notin watch.runs
                        \/ watch'.delivered = Append(watch.delivered, run)]_vars

\* Two events on a.ts less than the delay apart and one on b.ts: one change
\* was handled for each path, the one for a.ts of the later event's type.
C25_Witness ==
  /\ watch.seen = [path \in WatchPaths |-> IF path = "/p/a.ts" THEN 2 ELSE 1]
  /\ watch.timers = {}
  /\ watch.bursts = [path \in WatchPaths |-> 1]
  /\ watch.handled = [path \in WatchPaths |-> 1]
  /\ \E i \in 1..Len(watch.delivered) :
       /\ watch.delivered[i].path = "/p/a.ts"
       /\ watch.delivered[i].type = "unlink"
       /\ watch.delivered[i].fired \in {1, 2}

\* The handleChange runs of a path that wait for their read.
C26_Running(w, path) == {run \in w.runs : run.path = path}

\* The changes of a path reach the callback in the order their timers fired.
C26_InFiringOrder ==
  \A i, j \in 1..Len(watch.delivered) :
    (i < j /\ watch.delivered[i].path = watch.delivered[j].path)
    => watch.delivered[i].fired < watch.delivered[j].fired

\* C26: for any single path at most one handleChange run is in progress at
\* a time, and the FileChange records of that path are handed to the callback
\* in the order in which its debounce timers fired, even when a file read
\* outlasts the debounce delay.
C26_SerializedPerPath ==
  [](/\ \A path \in WatchPaths : Cardinality(C26_Running(watch, path)) <= 1
     /\ C26_InFiringOrder)

\* The distinct non-empty branches the members of r are on.
C27_BranchesOf(r) ==
  {r.clients[d].info.branch : d \in {m \in DOMAIN r.clients : Truthy(r.clients[m].info.branch)}}

\* The frames a member's heartbeat is answered with: when it reports a branch
\* other than the one stored for the member and the room is diverged
\* afterwards, a branch_warning with the name-to-branch mapping to every
\* member and then heartbeat_ack; otherwise heartbeat_ack alone.  Diverged is
\* judged on the members' branches or, with byName, on the mapping.
C27_Heartbeat(byName) ==
  \A s \in env.senders, code \in env.codes, status \in Statuses, branch \in env.branches :
    ( /\ hasRoom(rooms, code)
      /\ hasMember(rooms[code], s[2])
      /\ handleHeartbeat(s[1], s[2], code, status, branch) )
    => LET stored == rooms[code].clients[s[2]].info.branch
           after == rooms'[code]
           mapping == getBranches(after)
           changed == Truthy(branch) /\ Truthy(stored) /\ branch # stored
           diverged == IF byName
                         THEN Cardinality({mapping[n] : n \in DOMAIN mapping}) > 1
                         ELSE Cardinality(C27_BranchesOf(after)) > 1
           warning == [Frame(NoConn, "branch_warning", code) EXCEPT !.map = mapping]
       IN /\ after.clients[s[2]].info.branch = IF Truthy(branch) THEN branch ELSE stored
          /\ sent' = (IF changed /\ diverged THEN broadcast(after, warning, NoDevice)
                                             ELSE <<>>)
                     \o sendMessage(Frame(s[1], "heartbeat_ack", code))

\* C27: when a member's heartbeat reports a branch that differs from the
\* branch stored for that member and, after the update, the room's members
\* are on more than one distinct non-null branch, the relay broadcasts a
\* branch_warning with the name-to-branch mapping to all members and then
\* replies heartbeat_ack; a heartbeat that does not change the member's
\* branch broadcasts no branch_warning.
C27_BranchWarning == [][C27_Heartbeat(FALSE)]_vars

\* C27 (the part the code keeps): the same with divergence judged on the
\* name-to-branch mapping, in which members of the same name share one entry.
C27_WarningByName == [][C27_Heartbeat(TRUE)]_vars

\* Alice switched from main to feature while Zeus is on main: both were
\* warned and Alice's heartbeat was acknowledged.
C27_Warned ==
  /\ Len(sent) = 3
  /\ sent[1].type = "branch_warning" /\ sent[2].type = "branch_warning"
  /\ {sent[1].to, sent[2].to} = {1, 2}
  /\ sent[3].type = "heartbeat_ack"
  /\ hasRoom(rooms, TeamCode)
  /\ C27_BranchesOf(rooms[TeamCode]) = {"main", "feature"}

\* C28: the expiry sweep removes a room if and only if its expiresInHours is
\* greater than 0 and its lastActivity is more than expiresInHours hours
\* before the time of the sweep; it keeps every other room as it is, so a
\* room with expiresInHours = 0 survives it however long it was inactive.
C28_ExpirySweep ==
  [][expirySweep =>
       /\ \A code \in DOMAIN rooms :
            (code \notin DOMAIN rooms')
            <=> /\ rooms[code].expiresInHours > 0
                /\ clock - rooms[code].lastActivity > rooms[code].expiresInHours * 3600000
       /\ \A code \in DOMAIN rooms' : code \in DOMAIN rooms /\ rooms'[code] = rooms[code]]_vars

\* One millisecond past the hour the sweep has removed Zeus's room, whose
\* member never left, and kept Alice's room, idle just as long, with Alice
\* still seated.
C28_Witness ==
  /\ clock = MS_PER_HOUR + 1
  /\ DOMAIN rooms = {KeptCode}
  /\ rooms[KeptCode].expiresInHours = 0
  /\ rooms[KeptCode].lastActivity = 0
  /\ DOMAIN rooms[KeptCode].clients = {2}
  /\ conns[1].open /\ conns[1].roomCode = TeamCode

\* The reply to get_timeline with a limit among limits holds the last
\* min(L, n) of the room's n events, oldest first, where L is the limit or
\* 50 when the frame has none.
C29_Reply(limits) ==
  \A s \in env.senders, code \in env.codes, limit \in limits :
    ( /\ hasRoom(rooms, code)
      /\ handleGetTimeline(s[1], s[2], code, limit) )
    => LET L == IF limit = NoLimit THEN 50 ELSE limit
           n == Len(rooms[code].timeline)
           m == IF L < n THEN L ELSE n
           events == [i \in 1..m |-> rooms[code].timeline[n - m + i]]
       IN /\ sent' = <<[Frame(s[1], "timeline", code) EXCEPT !.list = events]>>
          /\ \A i, j \in 1..m : i < j => events[i].id < events[j].id

\* C29: get_timeline for an existing room replies with a timeline frame
\* holding the last L events of the room's timeline in ascending id order,
\* where L is the frame's limit or 50 when limit is absent: for every limit
\* L >= 0 and timeline of n events the reply holds exactly min(L, n) events,
\* the most recent ones.
C29_LastEvents == [][C29_Reply(Limits)]_vars

\* C29 (the part the code keeps): the same for an absent limit and for every
\* limit L >= 1.
C29_PositiveLimit == [][C29_Reply(Limits \ {0})]_vars

\* A timeline frame with the single latest event of a room that has more.
C29_Tailed ==
  /\ Len(sent) = 1
  /\ sent[1].type = "timeline"
  /\ hasRoom(rooms, TeamCode)
  /\ Len(rooms[TeamCode].timeline) >= 2
  /\ sent[1].list = <<rooms[TeamCode].timeline[Len(rooms[TeamCode].timeline)]>>

\* C30: a pending typing timer belongs to a member and is armed for the file
\* the member is typing in, and a member who is typing has one (each member
\* has at most one: the timers are looked up by device); setTyping(D, f) with
\* a file replaces any earlier timer of D by one for f that is due after the
\* typing timeout; setTyping(D, null) clears typingIn and leaves no timer;
\* the timer that fires clears typingIn only if it still equals the file the
\* timer was armed for, and is gone afterwards.
C30_TypingAutoClear ==
  /\ [](\A code \in DOMAIN rooms :
          LET r == rooms[code]
          IN /\ DOMAIN r.typingTimers \subseteq DOMAIN r.clients
             /\ \A d \in DOMAIN r.clients :
                  IF d \in DOMAIN r.typingTimers
                    THEN r.clients[d].info.typingIn = r.typingTimers[d].file
                    ELSE r.clients[d].info.typingIn = NoPath)
  /\ [][\A s \in env.senders, code \in env.codes :
          /\ \A file \in env.typingFiles :
               ( /\ hasRoom(rooms, code)
                 /\ hasMember(rooms[code], s[2])
                 /\ handleDeclareTyping(s[1], s[2], NameOf(s[2]), code, file) )
               => /\ rooms'[code].clients[s[2]].info.typingIn = file
                  /\ IF file # NoPath
                       THEN /\ s[2] \in DOMAIN rooms'[code].typingTimers
                            /\ rooms'[code].typingTimers[s[2]] =
                                 [file |-> file, due |-> clock + 10000]
                       ELSE s[2] \notin DOMAIN rooms'[code].typingTimers
                  /\ \A d \in DOMAIN rooms[code].clients \ {s[2]} :
                       /\ rooms'[code].clients[d] = rooms[code].clients[d]
                       /\ (d \in DOMAIN rooms'[code].typingTimers)
                            <=> (d \in DOMAIN rooms[code].typingTimers)
          /\ typingTimeout(code, s[2])
               => /\ clock >= rooms[code].typingTimers[s[2]].due
                  /\ s[2] \notin DOMAIN rooms'[code].typingTimers
                  /\ rooms'[code].clients[s[2]].info.typingIn =
                       IF rooms[code].clients[s[2]].info.typingIn
                            = rooms[code].typingTimers[s[2]].file
                         THEN NoPath
                         ELSE rooms[code].clients[s[2]].info.typingIn]_vars

\* Zeus declared file 1, and a typing timeout later file 2: his timer is the
\* one for file 2, due a full timeout from now, and both frames are spent.
C30_Witness ==
  /\ clock = TYPING_TIMEOUT_MS
  /\ hasRoom(rooms, TeamCode)
  /\ hasMember(rooms[TeamCode], 1)
  /\ rooms[TeamCode].clients[1].info.typingIn = 2
  /\ 1 \in DOMAIN rooms[TeamCode].typingTimers
  /\ rooms[TeamCode].typingTimers[1] = [file |-> 2, due |-> 2 * TYPING_TIMEOUT_MS]
  /\ Len(sent) = 1 /\ sent[1].type = "typing_indicator" /\ sent[1].file = 2
  /\ budget.quiet = 0

\* ------------------------------------------------------------------------
\* Reconnecting agents
\* ------------------------------------------------------------------------
\* The team's room while Zeus's agent may open a second transport
\* (connection 3) and speak over it with the same device id; time may pass
\* the heartbeat timeout once.
ReseatConns == {1, 2, 3}

ReseatEnv ==
  [ BeatEnv EXCEPT !.senders = {<<1, 1>>, <<2, 2>>, <<3, 1>>},
                   !.branches = {Undef},
                   !.tickSteps = {HEARTBEAT_TIMEOUT_MS + 1} ]

ReseatBudget == [events |-> MaxEvents + 1, ticks |-> MaxTicks, quiet |-> MaxQuiet]

InitReseat ==
  /\ rooms = [code \in {TeamCode} |-> TeamRoom]
  /\ conns = [c \in ReseatConns |->
                IF c \in Conns THEN TeamSessions[c] ELSE NewSession]
  /\ clock = 0
  /\ disk = <<>>
  /\ loading = FALSE
  /\ sent = <<>>
  /\ budget = ReseatBudget
  /\ env = ReseatEnv
  /\ agent = NewClient
  /\ watch = NewWatcher

\* The frames and timers that seat and unseat members.
NextSeats ==
  \/ \E c \in DOMAIN conns : Connect(c)
  \/ \E s \in env.senders : \E name \in NamesOf(s[2]) \cap env.names, code \in env.codes,
        password \in env.passwords, branch \in env.branches :
       handleJoinRoom(s[1], s[2], name, code, password, branch)
  \/ \E s \in env.senders, code \in env.codes : handleLeaveRoom(s[1], s[2], code)
  \/ \E s \in env.senders, code \in env.codes, status \in Statuses, branch \in env.branches :
       handleHeartbeat(s[1], s[2], code, status, branch)
  \/ \E c \in DOMAIN conns : handleDisconnect(c)
  \/ heartbeatSweep
  \/ \E d \in env.tickSteps : Tick(d)

SpecReseat == InitReseat /\ [][NextSeats]_vars

\* The locks of room r held by deviceId.
LocksOf(r, deviceId) == {f \in DOMAIN r.locks : r.locks[f].deviceId = deviceId}

\* C31: the close of connection c removes only a seat that c itself
\* established: a seat whose transport is another connection stays in its
\* room with its locks, and no member_left is broadcast for its device.
C31_CloseKeepsOtherSeats ==
  [][\A c \in DOMAIN conns :
       handleDisconnect(c) =>
         \A code \in DOMAIN rooms : \A d \in DOMAIN rooms[code].clients :
           rooms[code].clients[d].ws # c =>
             /\ code \in DOMAIN rooms'
             /\ d \in DOMAIN rooms'[code].clients
             /\ rooms'[code].clients[d].ws = rooms[code].clients[d].ws
             /\ LocksOf(rooms'[code], d) = LocksOf(rooms[code], d)
             /\ \A i \in 1..Len(sent') :
                  ~(sent'[i].type = "member_left" /\ sent'[i].code = code
                    /\ sent'[i].dev = d)]_vars

\* What the close handler does keep: it touches no seat but the one of the
\* session's device id in the session's room.
C31_CloseKeepsOtherDevices ==
  [][\A c \in DOMAIN conns :
       handleDisconnect(c) =>
         \A code \in DOMAIN rooms : \A d \in DOMAIN rooms[code].clients :
           (code # conns[c].roomCode \/ d # conns[c].deviceId) =>
             /\ code \in DOMAIN rooms'
             /\ d \in DOMAIN rooms'[code].clients
             /\ rooms'[code].clients[d].ws = rooms[code].clients[d].ws]_vars

\* Zeus is seated through connection 3 while connection 1, through which he
\* was seated before, is still open with its session naming him and the room.
C31_Reseated ==
  /\ TeamCode \in DOMAIN rooms
  /\ 1 \in DOMAIN rooms[TeamCode].clients
  /\ rooms[TeamCode].clients[1].ws = 3
  /\ conns[1].open /\ conns[1].deviceId = 1 /\ conns[1].roomCode = TeamCode
  /\ budget.events > 0

\* ------------------------------------------------------------------------
\* A password-protected room and a connection that never joined it
\* ------------------------------------------------------------------------
\* Zeus created the room with a password over connection 1; connection 2 is
\* open and has sent nothing yet.  Alice's frames may carry no password, a
\* wrong one or the right one.
VaultRoom ==
  addMember(NewRoom(TeamCode, "Zeus", "secret123", FALSE, 0, 0), 1, "Zeus", 1, Undef, 0).room

VaultEnv ==
  [ LobbyEnv EXCEPT !.names = {"Zeus", "Alice"},
                    !.passwords = {Undef, "wrong", "secret123"},
                    !.options = {[isPublic |-> FALSE, expiresInHours |-> 0]},
                    !.contents = {"hello"} ]

InitVault ==
  /\ rooms = [code \in {TeamCode} |-> VaultRoom]
  /\ conns = [c \in Conns |->
                IF c = 1 THEN [open |-> TRUE, deviceId |-> 1, roomCode |-> TeamCode]
                         ELSE [NewSession EXCEPT !.open = TRUE]]
  /\ clock = 0
  /\ disk = <<>>
  /\ loading = FALSE
  /\ sent = <<>>
  /\ budget = LobbyBudget
  /\ env = VaultEnv
  /\ agent = NewClient
  /\ watch = NewWatcher

SpecVault == InitVault /\ [][NextRelay]_vars

\* Room r has never seated deviceId: its history holds no join event of the
\* device's developer.
NeverJoined(r, deviceId) ==
  \A i \in 1..Len(r.allEvents) :
    ~(r.allEvents[i].type = "join" /\ r.allEvents[i].actor = NameOf(deviceId))

\* The step handles a frame other than create_room and join_room that
\* connection c sent for deviceId with room code.
FrameOnRoom(c, deviceId, code) ==
  \/ handleLeaveRoom(c, deviceId, code)
  \/ \E status \in Statuses, branch \in env.branches :
       handleHeartbeat(c, deviceId, code, status, branch)
  \/ \E change \in Changes(deviceId) : handleFileChange(c, deviceId, code, change)
  \/ \E files \in env.fileLists :
       handleDeclareWorking(c, deviceId, NameOf(deviceId), code, files)
  \/ \E content \in env.contents :
       handleChatMessage(c, deviceId, NameOf(deviceId), code, content)
  \/ \E file \in env.typingFiles :
       handleDeclareTyping(c, deviceId, NameOf(deviceId), code, file)
  \/ \E file \in env.paths : handleLockFile(c, deviceId, NameOf(deviceId), code, file)
  \/ \E file \in env.paths : handleUnlockFile(c, deviceId, NameOf(deviceId), code, file)
  \/ handleRequestStatus(c, deviceId, code)
  \/ handleSyncRequest(c, deviceId, code)
  \/ \E cursor \in Cursors : handleUpdateCursor(c, deviceId, NameOf(deviceId), code, cursor)
  \/ \E terminal \in Terminals : handleShareTerminal(c, deviceId, code, terminal)
  \/ \E limit \in Limits : handleGetTimeline(c, deviceId, code, limit)
  \/ \E webhook \in Webhooks : handleSetWebhook(c, deviceId, code, webhook)
  \/ \E isPublic \in BOOLEAN : handleSetRoomVisibility(c, deviceId, code, isPublic)

\* C32: for a room with a password, a frame from a connection whose device
\* never joined the room gets no room_status or timeline reply, leaves the
\* room's locks, timeline, recent changes, webhook, visibility and seats as
\* they were, and causes no frame to any other connection.
C32_OutsiderShutOut ==
  [][\A s \in env.senders, code \in DOMAIN rooms :
       ( /\ Truthy(rooms[code].password)
         /\ NeverJoined(rooms[code], s[2])
         /\ FrameOnRoom(s[1], s[2], code) )
       => /\ \A i \in 1..Len(sent') :
               /\ sent'[i].to = s[1]
               /\ sent'[i].type \notin {"room_status", "timeline"}
          /\ code \in DOMAIN rooms'
          /\ rooms'[code].locks = rooms[code].locks
          /\ rooms'[code].timeline = rooms[code].timeline
          /\ rooms'[code].recentChanges = rooms[code].recentChanges
          /\ rooms'[code].webhook = rooms[code].webhook
          /\ rooms'[code].isPublic = rooms[code].isPublic
          /\ rooms'[code].clients = rooms[code].clients]_vars

\* The same for the join itself: without the room's password a join_room
\* changes nothing in the room and reaches no member.
C32_JoinNeedsPassword ==
  [][\A s \in env.senders, code \in DOMAIN rooms, password \in env.passwords,
        branch \in env.branches :
       ( /\ Truthy(rooms[code].password)
         /\ password # rooms[code].password
         /\ handleJoinRoom(s[1], s[2], NameOf(s[2]), code, password, branch) )
       => /\ rooms' = rooms
          /\ \A i \in 1..Len(sent') : sent'[i].to = s[1] /\ sent'[i].type = "error"]_vars

\* Alice's connection has sent a frame, and her device has never been
\* seated in the password-protected room.
C32_Outsider ==
  /\ TeamCode \in DOMAIN rooms
  /\ Truthy(rooms[TeamCode].password)
  /\ NeverJoined(rooms[TeamCode], 2)
  /\ conns[2].open /\ conns[2].deviceId = 2

\* C33: once the relay has handled the close of connection c, no room in the
\* registry holds a seat whose transport is c.
C33_NoSeatAfterClose ==
  [][\A c \in DOMAIN conns :
       handleDisconnect(c) =>
         \A code \in DOMAIN rooms' : \A d \in DOMAIN rooms'[code].clients :
           rooms'[code].clients[d].ws # c]_vars

\* What the close handler does ensure: the room its session names no longer
\* seats the session's device.
C33_SessionSeatGone ==
  [][\A c \in DOMAIN conns :
       (handleDisconnect(c) /\ conns[c].roomCode \in DOMAIN rooms')
         => conns[c].deviceId \notin DOMAIN rooms'[conns[c].roomCode].clients]_vars

\* Connection 2 is seated in two rooms, and its session names the one it
\* joined last.
C33_TwoSeats ==
  /\ \A code \in {TeamCode, KeptCode} :
       /\ code \in DOMAIN rooms
       /\ 2 \in DOMAIN rooms[code].clients
       /\ rooms[code].clients[2].ws = 2
  /\ conns[2].open /\ conns[2].roomCode = TeamCode

\* ------------------------------------------------------------------------
\* An agent and the relay over one open socket
\* ------------------------------------------------------------------------
\* Zeus's agent holds connection 1 and speaks for device 1.
AgentConn == 1
AgentDevice == 1

\* Frames are written and acknowledged while fewer than MaxInFlight wait in
\* a direction.
MaxInFlight == 2

\* The client after connect(), the socket's open event, joinRoom() and the
\* relay's room_joined.
JoinedClient ==
  LET joined == onMessage(joinRoom(onOpen(connect(NewClient)), TeamCode, Undef),
                          [type |-> "room_joined", code |-> TeamCode])
  IN [joined EXCEPT !.out = <<>>, !.owed = <<>>]

\* The frames of a step that the relay wrote to the agent's socket, as the
\* client reads them.
Inbound(frames) ==
  LET mine == SelectSeq(frames, LAMBDA f : f.to = AgentConn)
  IN [i \in 1..Len(mine) |-> [type |-> mine[i].type, code |-> mine[i].code]]

\* The frames the client wrote in this step leave on the socket.
Posted(a) == [a EXCEPT !.up = @ \o a.out, !.owed = <<>>]

\* The agent's heartbeat interval fires.
agentHeartbeat ==
  /\ agent.heartbeatTimer
  /\ Len(agent.up) < MaxInFlight
  /\ agent' = Posted(heartbeatTimerFired(Quiet(agent)))
  /\ UNCHANGED <<relayVars, watch>>

\* The relay's ws.on("message") for the agent's heartbeat frame at the head
\* of the socket: handleHeartbeat, its answer leaving on the same socket.
relayHeartbeat ==
  /\ agent.up # <<>>
  /\ Head(agent.up).type = "heartbeat"
  /\ Len(agent.inbox) < MaxInFlight
  /\ isOpen(AgentConn)
  /\ SessionKeep(AgentConn, AgentDevice)
  /\ LET msg == Head(agent.up)
         code == msg.code
     IN IF ~hasRoom(rooms, code)
          THEN /\ rooms' = rooms
               /\ sent' = <<>>
          ELSE
            LET oldBranch == getMember(rooms[code], AgentDevice).branch
                room == updateHeartbeat(rooms[code], AgentDevice, "active", msg.branch, clock)
                branchCheck == checkBranchDivergence(room)
            IN /\ rooms' = [rooms EXCEPT ![code] = room]
               /\ sent' =
                    (IF Truthy(msg.branch) /\ Truthy(oldBranch) /\ msg.branch # oldBranch
                        /\ branchCheck.diverged
                       THEN broadcast(room, [Frame(NoConn, "branch_warning", code) EXCEPT
                                               !.map = branchCheck.branches], NoDevice)
                       ELSE <<>>)
                    \o sendMessage(Frame(AgentConn, "heartbeat_ack", code))
  /\ agent' = [agent EXCEPT !.up = Tail(@), !.inbox = @ \o Inbound(sent')]
  /\ UNCHANGED <<clock, disk, loading, budget, env, watch>>

\* The client's socket delivers the next frame from the relay.
agentMessage ==
  /\ agent.sock = "open"
  /\ agent.inbox # <<>>
  /\ agent' = Posted(onMessage([Quiet(agent) EXCEPT !.inbox = Tail(@)], Head(agent.inbox)))
  /\ UNCHANGED <<relayVars, watch>>

\* The agent's heartbeats, the relay's timers and Alice's heartbeats while
\* both sockets stay open.
NextLink ==
  \/ agentHeartbeat
  \/ relayHeartbeat
  \/ agentMessage
  \/ \E status \in Statuses, branch \in env.branches :
       handleHeartbeat(2, 2, TeamCode, status, branch)
  \/ heartbeatSweep
  \/ expirySweep
  \/ \E d \in env.tickSteps : Tick(d)

InitLink ==
  /\ rooms = [code \in {TeamCode} |-> TeamRoom]
  /\ conns = TeamSessions
  /\ clock = 0
  /\ disk = <<>>
  /\ loading = FALSE
  /\ sent = <<>>
  /\ budget = [NewBudget EXCEPT !.ticks = MaxTicks + 1]
  /\ env = BeatEnv
  /\ agent = JoinedClient
  /\ watch = NewWatcher

\* The agent's interval keeps firing and the socket keeps delivering in both
\* directions; the relay's setInterval keeps running the sweep.
SpecLink ==
  /\ InitLink
  /\ [][NextLink]_vars
  /\ WF_vars(agentHeartbeat)
  /\ WF_vars(relayHeartbeat)
  /\ WF_vars(agentMessage)
  /\ []<><<heartbeatSweep>>_vars

\* The agent's device holds a seat in the room the agent believes it is in.
AgentSeated ==
  /\ hasRoom(rooms, agent.currentRoom)
  /\ hasMember(rooms[agent.currentRoom], AgentDevice)

\* C34: whenever the agent's socket is open and the agent believes it is in
\* a room in which its device has no seat, eventually the device holds a
\* seat in that room again or the agent's currentRoom is null.
C34_EventualAgreement ==
  (agent.sock = "open" /\ Truthy(agent.currentRoom) /\ ~AgentSeated)
    ~> (AgentSeated \/ ~Truthy(agent.currentRoom))

\* While the device holds its seat, the relay acknowledges every heartbeat
\* it handles and the seat stays.
C34_SeatedHeartbeatKept ==
  [][(relayHeartbeat /\ AgentSeated)
       => /\ AgentSeated'
          /\ Len(agent'.inbox) = Len(agent.inbox) + 1
          /\ agent'.inbox[Len(agent'.inbox)].type = "heartbeat_ack"
          /\ rooms'[agent.currentRoom].clients[AgentDevice].info.lastSeen = clock]_vars

\* The sweep has removed the agent's seat, the socket is open, and the agent
\* has since read an acknowledgement for a heartbeat to that room.
C34_Drifted ==
  /\ agent.sock = "open"
  /\ agent.currentRoom = TeamCode
  /\ hasRoom(rooms, TeamCode)
  /\ ~hasMember(rooms[TeamCode], AgentDevice)
  /\ Len(sent) = 1 /\ sent[1].type = "heartbeat_ack" /\ sent[1].to = AgentConn
  /\ agent.inbox = <<>>

\* ------------------------------------------------------------------------
\* The frames an agent writes, in the order it writes them
\* ------------------------------------------------------------------------
\* The wire is followed for its first MaxWire frames.
MaxWire == 5

\* The file changes among frames, and the largest number in a set of changes.
ChangesIn(frames) ==
  LET changes == SelectSeq(frames, LAMBDA f : f.type = "file_change")
  IN [i \in 1..Len(changes) |-> changes[i].change]

Largest(S) == IF S = {} THEN 0 ELSE CHOOSE m \in S : \A x \in S : x <= m

\* Changes are numbered in the order of the reportFileChange calls: the next
\* one gets a number above every change written or waiting.
NextReport(a) ==
  Largest({ChangesIn(a.up)[i] : i \in 1..Len(ChangesIn(a.up))}
          \cup {a.fileChangeQueue[i] : i \in 1..Len(a.fileChangeQueue)}) + 1

\* A client step whose written frames leave on the socket behind those
\* written before.
WireStep(a) ==
  /\ Len(agent.up) + Len(a.out) <= MaxWire
  /\ agent' = [a EXCEPT !.up = agent.up \o a.out]
  /\ UNCHANGED <<relayVars, watch>>

wireOpen ==
  /\ agent.sock = "connecting"
  /\ Len(agent.pendingListeners) < MaxListeners
  /\ WireStep(onOpen(Quiet(agent)))

wireMessage ==
  /\ agent.sock \in {"open", "closing"}
  /\ agent.owed # <<>>
  /\ \E msg \in Answers(Head(agent.owed)) :
       WireStep(onMessage([Quiet(agent) EXCEPT !.owed = Tail(@)], msg))

wireError ==
  /\ agent.sock \in {"connecting", "open", "aborted"}
  /\ WireStep(onError(Quiet(agent)))

wireClose ==
  /\ agent.sock \in {"open", "closing", "failed"}
  /\ WireStep(onClose(Quiet(agent)))

wireReconnect ==
  /\ agent.reconnectTimer # NoTimer
  /\ WireStep(reconnectTimerFired(Quiet(agent)))

wireReport ==
  \E change \in env.changes \cap {NextReport(agent)} :
    WireStep(reportFileChange(Quiet(agent), change))

NextWire ==
  \/ wireOpen
  \/ wireMessage
  \/ wireError
  \/ wireClose
  \/ wireReconnect
  \/ wireReport

InitWire ==
  /\ rooms = EmptyMap
  /\ conns = [c \in Conns |-> NewSession]
  /\ clock = 0
  /\ disk = <<>>
  /\ loading = FALSE
  /\ sent = <<>>
  /\ budget = NewBudget
  /\ env = AgentEnv
  /\ agent = JoinedClient
  /\ watch = NewWatcher

SpecWire == InitWire /\ [][NextWire]_vars

\* C35: the file_change frames the agent writes are in the order of the
\* reportFileChange calls, also across a reconnect.
C35_ReportOrderOnWire ==
  \A i, j \in 1..Len(ChangesIn(agent.up)) :
    i < j => ChangesIn(agent.up)[i] < ChangesIn(agent.up)[j]

\* What the client does keep: while changes wait in the offline queue, they
\* wait in report order, and a flush writes them in that order.
C35_QueueInReportOrder ==
  /\ [](\A i, j \in 1..Len(agent.fileChangeQueue) :
          i < j => agent.fileChangeQueue[i] < agent.fileChangeQueue[j])
  /\ [][(agent.fileChangeQueue # <<>> /\ agent'.fileChangeQueue = <<>>
         /\ agent'.out # <<>>)
          => ChangesIn(agent'.out) = agent.fileChangeQueue]_vars

\* The socket has reopened, the rejoin is not answered yet, and changes
\* reported while offline wait in the queue.
C35_Reopened ==
  /\ agent.sock = "open"
  /\ agent.owed # <<>>
  /\ Len(agent.fileChangeQueue) = 2
  /\ agent.pendingListeners # <<>>

\* The socket's close event is handled in this step, for a socket that had
\* opened (its heartbeat interval is still running) and without disconnect()
\* having been called.
C36_LossHandled(socks) ==
  /\ agent.sock \in socks
  /\ agent.heartbeatTimer
  /\ ~agent.down
  /\ agent' = onClose(Quiet(agent))

\* C36: whenever a connection that had opened closes without disconnect()
\* having been called, a reconnect attempt is scheduled, whether or not the
\* socket raised an error event before the close event.
C36_LossSchedulesReconnect ==
  [][C36_LossHandled({"open", "failed"})
       => /\ agent'.reconnectTimer = BACKOFF_BASE_MS
          /\ agent'.reconnectAttempts = 1]_vars

\* What the client keeps: the same for a close that no error event preceded.
C36_QuietLossSchedulesReconnect ==
  [][C36_LossHandled({"open"})
       => /\ agent'.reconnectTimer = BACKOFF_BASE_MS
          /\ agent'.reconnectAttempts = 1]_vars

\* An open socket has raised an error event; its close event is due.
C36_ErrorOnOpenSocket ==
  /\ agent.sock = "failed"
  /\ agent.heartbeatTimer
  /\ ~agent.down
  /\ Truthy(agent.currentRoom)

\* C37: a room re-created from the persistence file, which has no member
\* yet, stays in the registry through the relay's periodic sweeps until it
\* expires by its own expiresInHours.
C37_RestoredRoomStays ==
  [][(heartbeatSweep \/ expirySweep)
       => \A code \in DOMAIN rooms :
            (isEmpty(rooms[code]) /\ ~isExpired(rooms[code], clock))
              => code \in DOMAIN rooms']_vars

\* What the relay keeps: the startup load re-creates every saved room,
\* without members, and the expiry sweep leaves such a room alone until it
\* has expired.
C37_RestoredAtStartup ==
  /\ [][loadPersisted
          => \A i \in 1..Len(disk) :
               /\ disk[i].code \in DOMAIN rooms'
               /\ (disk[i].code \notin DOMAIN rooms => isEmpty(rooms'[disk[i].code]))]_vars
  /\ [][expirySweep
          => \A code \in DOMAIN rooms :
               (isEmpty(rooms[code]) /\ ~isExpired(rooms[code], clock))
                 => code \in DOMAIN rooms']_vars

\* The startup load has re-created a room, and nobody has joined it yet.
C37_Restored ==
  /\ ~loading
  /\ disk # <<>>
  /\ \E code \in DOMAIN rooms : isEmpty(rooms[code])

\* The step handles a leave_room, a transport close or a heartbeat sweep.
C38_RemovalStep ==
  \/ \E s \in env.senders, code \in env.codes : handleLeaveRoom(s[1], s[2], code)
  \/ \E c \in DOMAIN conns : handleDisconnect(c)
  \/ heartbeatSweep

\* The devices whose seat in room code the step removes.
C38_Unseated(code) ==
  {d \in DOMAIN rooms[code].clients :
     code \notin DOMAIN rooms' \/ d \notin DOMAIN rooms'[code].clients}

\* The member_left frames of the step that name room code and device d.
C38_Announcements(code, d) ==
  {i \in 1..Len(sent') : /\ sent'[i].type = "member_left"
                         /\ sent'[i].code = code
                         /\ sent'[i].dev = d}

\* C38: a leave_room, a transport close or a heartbeat sweep that removes a
\* seat appends exactly one leave event for it to the room's timeline and
\* sends exactly one member_left for it to every member that remains with an
\* open transport; such a step that removes no seat sends no member_left,
\* and a seat once removed is not announced again.
C38_RemovalAnnouncedOnce ==
  [][C38_RemovalStep =>
       /\ \A code \in DOMAIN rooms :
            LET gone == C38_Unseated(code)
            IN /\ \A d \in gone :
                    code \in DOMAIN rooms' =>
                      /\ \A m \in DOMAIN rooms'[code].clients :
                           conns'[rooms'[code].clients[m].ws].open =>
                             Cardinality({i \in C38_Announcements(code, d) :
                                            sent'[i].to = rooms'[code].clients[m].ws}) = 1
                      /\ Cardinality({i \in 1..Len(rooms'[code].allEvents) :
                                        /\ i > Len(rooms[code].allEvents)
                                        /\ rooms'[code].allEvents[i].type = "leave"
                                        /\ rooms'[code].allEvents[i].actor
                                             = rooms[code].clients[d].info.name}) = 1
               /\ code \in DOMAIN rooms' =>
                    Len(rooms'[code].allEvents) = Len(rooms[code].allEvents) + Cardinality(gone)
       /\ \A i \in 1..Len(sent') :
            sent'[i].type = "member_left" =>
              /\ sent'[i].code \in DOMAIN rooms
              /\ sent'[i].dev \in C38_Unseated(sent'[i].code)]_vars

\* The heartbeat sweep has removed Zeus's seat and told Alice once; Zeus's
\* connection is still open with its session naming the room, so its close
\* is still to come.
C38_Witness ==
  /\ TeamCode \in DOMAIN rooms
  /\ DOMAIN rooms[TeamCode].clients = {2}
  /\ conns[1].open /\ conns[1].roomCode = TeamCode /\ conns[1].deviceId = 1
  /\ Len(sent) = 1
  /\ sent[1].type = "member_left" /\ sent[1].dev = 1 /\ sent[1].to = 2
  /\ rooms[TeamCode].allEvents[Len(rooms[TeamCode].allEvents)].type = "leave"

\* ------------------------------------------------------------------------
\* computeDiffSummary (src/src/shared/utils.ts)
\* ------------------------------------------------------------------------
\* A content is the sequence of its characters; NL is the line feed.
NL == "\n"

\* The longest content compared character by character.
MaxChars == 3

MAX_DIFF_LINES == 2000

\* String.prototype.split("\n"): the pieces between the line feeds, one more
\* than there are line feeds.
split(content) ==
  LET breaks == SelectSeq([i \in 1..Len(content) |-> i], LAMBDA i : content[i] = NL)
      first(k) == IF k = 1 THEN 1 ELSE breaks[k - 1] + 1
      last(k) == IF k = Len(breaks) + 1 THEN Len(content) ELSE breaks[k] - 1
  IN [k \in 1..(Len(breaks) + 1) |-> SubSeq(content, first(k), last(k))]

\* Array.prototype.indexOf(x, from) over 0-based positions; -1 if absent.
indexOf(lines, x, from) ==
  LET hits == {i \in from..(Len(lines) - 1) : lines[i + 1] = x}
  IN IF hits = {} THEN -1 ELSE CHOOSE i \in hits : \A j \in hits : i <= j

\* Array.prototype.slice(0, n)
SliceFirst(s, n) == IF Len(s) <= n THEN s ELSE SubSeq(s, 1, n)

\* The call before its first statement, and the result of a call.
NoSummary == [large |-> FALSE, parts |-> <<>>, linesAdded |-> -1, linesRemoved |-> -1]

DiffCall(oldContent, newContent) ==
  [ pc |-> "call", oldContent |-> oldContent, newContent |-> newContent,
    oldLines |-> <<>>, newLines |-> <<>>, oi |-> 0, ni |-> 0,
    added |-> <<>>, removed |-> <<>>, summary |-> NoSummary ]

\* The branch for very large files: length-delta counts and a placeholder.
largeFileSummary(oldLines, newLines) ==
  LET linesAdded == IF Len(newLines) > Len(oldLines) THEN Len(newLines) - Len(oldLines) ELSE 0
      linesRemoved == IF Len(oldLines) > Len(newLines) THEN Len(oldLines) - Len(newLines) ELSE 0
      changed == IF linesAdded = 0 /\ linesRemoved = 0 THEN 1 ELSE 0
  IN [ large |-> TRUE,
       parts |-> <<<<"lines", Len(oldLines), Len(newLines)>>>>,
       linesAdded |-> linesAdded + changed,
       linesRemoved |-> linesRemoved + changed ]

\* The statements up to the loop.
diffEntered(d) ==
  LET oldLines == split(d.oldContent)
      newLines == split(d.newContent)
  IN IF Len(oldLines) > MAX_DIFF_LINES \/ Len(newLines) > MAX_DIFF_LINES
       THEN [d EXCEPT !.pc = "done", !.oldLines = oldLines, !.newLines = newLines,
                      !.summary = largeFileSummary(oldLines, newLines)]
       ELSE [d EXCEPT !.pc = "loop", !.oldLines = oldLines, !.newLines = newLines]

\* A loop body whose last branch records the added line only.
scanIteration_addOnly(d) ==
  LET old == d.oldLines
      new == d.newLines
      oi == d.oi
      ni == d.ni
  IN IF oi >= Len(old)
       THEN [d EXCEPT !.added = Append(@, new[ni + 1]), !.ni = ni + 1]
     ELSE IF ni >= Len(new)
       THEN [d EXCEPT !.removed = Append(@, old[oi + 1]), !.oi = oi + 1]
     ELSE IF old[oi + 1] = new[ni + 1]
       THEN [d EXCEPT !.oi = oi + 1, !.ni = ni + 1]
     ELSE
       LET lookAheadNew == indexOf(new, old[oi + 1], ni + 1)
           lookAheadOld == indexOf(old, new[ni + 1], oi + 1)
       IN IF lookAheadNew # -1
             /\ (lookAheadOld = -1 \/ lookAheadNew - ni <= lookAheadOld - oi)
            THEN [d EXCEPT !.added = @ \o SubSeq(new, ni + 1, lookAheadNew),
                           !.ni = lookAheadNew]
          ELSE IF lookAheadOld # -1
            THEN [d EXCEPT !.removed = @ \o SubSeq(old, oi + 1, lookAheadOld),
                           !.oi = lookAheadOld]
          ELSE [d EXCEPT !.added = Append(@, new[ni + 1]),
                         !.oi = oi + 1, !.ni = ni + 1]

\* One iteration of the while loop, its inner loops included.
scanIteration(d) ==
  LET old == d.oldLines
      new == d.newLines
      oi == d.oi
      ni == d.ni
  IN IF oi >= Len(old)
       THEN [d EXCEPT !.added = Append(@, new[ni + 1]), !.ni = ni + 1]
     ELSE IF ni >= Len(new)
       THEN [d EXCEPT !.removed = Append(@, old[oi + 1]), !.oi = oi + 1]
     ELSE IF old[oi + 1] = new[ni + 1]
       THEN [d EXCEPT !.oi = oi + 1, !.ni = ni + 1]
     ELSE
       LET lookAheadNew == indexOf(new, old[oi + 1], ni + 1)
           lookAheadOld == indexOf(old, new[ni + 1], oi + 1)
       IN IF lookAheadNew # -1
             /\ (lookAheadOld = -1 \/ lookAheadNew - ni <= lookAheadOld - oi)
            THEN [d EXCEPT !.added = @ \o SubSeq(new, ni + 1, lookAheadNew),
                           !.ni = lookAheadNew]
          ELSE IF lookAheadOld # -1
            THEN [d EXCEPT !.removed = @ \o SubSeq(old, oi + 1, lookAheadOld),
                           !.oi = lookAheadOld]
          ELSE [d EXCEPT !.removed = Append(@, old[oi + 1]),
                         !.added = Append(@, new[ni + 1]),
                         !.oi = oi + 1, !.ni = ni + 1]

\* The statements after the loop.
diffReturned(d) ==
  LET minus == [i \in 1..Len(SliceFirst(d.removed, 10)) |-> <<"-", d.removed[i]>>]
      plus == [i \in 1..Len(SliceFirst(d.added, 10)) |-> <<"+", d.added[i]>>]
      more == IF Len(d.removed) > 10 \/ Len(d.added) > 10
                THEN <<<<"...", Len(d.removed), Len(d.added)>>>>
                ELSE <<>>
  IN [d EXCEPT !.pc = "done",
               !.summary = [ large |-> FALSE,
                             parts |-> minus \o plus \o more,
                             linesAdded |-> Len(d.added),
                             linesRemoved |-> Len(d.removed) ]]

diffEnter ==
  /\ watch.pc = "call"
  /\ watch' = diffEntered(watch)
  /\ UNCHANGED clientVars

diffScan ==
  /\ watch.pc = "loop"
  /\ watch.oi < Len(watch.oldLines) \/ watch.ni < Len(watch.newLines)
  /\ watch' = scanIteration(watch)
  /\ UNCHANGED clientVars

diffReturn ==
  /\ watch.pc = "loop"
  /\ ~(watch.oi < Len(watch.oldLines) \/ watch.ni < Len(watch.newLines))
  /\ watch' = diffReturned(watch)
  /\ UNCHANGED clientVars

NextDiff ==
  \/ diffEnter
  \/ diffScan
  \/ diffReturn

\* Every content of up to MaxChars characters over two letters and the line
\* feed, and three contents past the large-file limit: MAX_DIFF_LINES + 1
\* empty lines, the same with a last line "a", and one line more.
SmallContents ==
  UNION {[1..n -> {"a", "b", NL}] : n \in 0..MaxChars}

LargeContents ==
  { [i \in 1..MAX_DIFF_LINES |-> NL],
    [i \in 1..(MAX_DIFF_LINES + 1) |-> IF i <= MAX_DIFF_LINES THEN NL ELSE "a"],
    [i \in 1..(MAX_DIFF_LINES + 1) |-> NL] }

DiffContents == SmallContents \cup LargeContents

\* FileWatcher.handleChange calls computeDiffSummary with the cached and the
\* newly read content of a changed file; watch holds the call.
InitDiff ==
  /\ rooms = EmptyMap
  /\ conns = [c \in Conns |-> NewSession]
  /\ clock = 0
  /\ disk = <<>>
  /\ loading = FALSE
  /\ sent = <<>>
  /\ budget = NewBudget
  /\ env = WatchEnv
  /\ agent = NewClient
  /\ watch \in {DiffCall(oldContent, newContent) :
                  oldContent \in DiffContents, newContent \in DiffContents}

SpecDiff == InitDiff /\ [][NextDiff]_vars

\* The number of lines of a content: one more than its line feeds.
LineCount(content) == Cardinality({i \in 1..Len(content) : content[i] = NL}) + 1

\* The lines the loop still has to look at.
Unscanned(d) == (Len(d.oldLines) - d.oi) + (Len(d.newLines) - d.ni)

\* C39: computeDiffSummary terminates (every loop iteration looks at fewer
\* remaining lines than the one before, and never past the end), and on
\* both paths linesAdded - linesRemoved is the number of lines of the new
\* content minus that of the old content.
C39_DiffBalances ==
  /\ [][diffScan => Unscanned(watch') < Unscanned(watch)]_vars
  /\ [](watch.pc = "loop" => /\ watch.oi <= Len(watch.oldLines)
                             /\ watch.ni <= Len(watch.newLines))
  /\ [](watch.pc = "done" =>
          watch.summary.linesAdded - watch.summary.linesRemoved
            = LineCount(watch.newContent) - LineCount(watch.oldContent))

\* The forward scan has returned for "a\nb" against "b\n\n": one line
\* removed and two added.
C39_Witness ==
  /\ watch.pc = "done"
  /\ ~watch.summary.large
  /\ watch.oldContent = <<"a", NL, "b">>
  /\ watch.newContent = <<"b", NL, NL>>
  /\ watch.summary.linesRemoved = 1
  /\ watch.summary.linesAdded = 2

\* C40: computeDiffSummary(x, x) returns linesAdded = 0 and linesRemoved = 0
\* for every content x, whatever its number of lines.
C40_IdenticalNoChange ==
  (watch.pc = "done" /\ watch.oldContent = watch.newContent) =>
    (watch.summary.linesAdded = 0 /\ watch.summary.linesRemoved = 0)

\* What the function keeps: identical contents of up to MAX_DIFF_LINES lines
\* return no change, and two contents of more than MAX_DIFF_LINES lines and
\* equal length return one line added and one removed, identical or not.
C40_IdenticalNoChangeBelowLimit ==
  watch.pc = "done" =>
    /\ (watch.oldContent = watch.newContent /\ ~watch.summary.large) =>
         (watch.summary.linesAdded = 0 /\ watch.summary.linesRemoved = 0)
    /\ (watch.summary.large /\ Len(watch.oldLines) = Len(watch.newLines)) =>
         (watch.summary.linesAdded = 1 /\ watch.summary.linesRemoved = 1)

\* The call has returned for a content of MAX_DIFF_LINES + 1 lines against
\* itself.
C40_LargeIdentical ==
  /\ watch.pc = "done"
  /\ watch.oldContent = watch.newContent
  /\ Len(watch.oldLines) = MAX_DIFF_LINES + 1

====
